---- MODULE Spec2Model ----
(***************************************************************************)
(* Input back-channel of the streaming server: the uinput injector of      *)
(* input_server.py (module-level active_slots, UDP receive loop) and of    *)
(* webrtc_stream.py (InputInjector, fed by the WebRTC data channel), with  *)
(* the session handling and shutdown paths that own the device handle.     *)
(***************************************************************************)
EXTENDS Integers, Sequences, FiniteSets, TLC

\* ---------------------------------------------------------------- constants
\* Event kinds of the 13-byte wire record.
EVT_MOUSE_MOVE == 0
EVT_MOUSE_DOWN == 1
EVT_MOUSE_UP == 2
EVT_KEY_DOWN == 3
EVT_KEY_UP == 4

STREAM_WIDTH == 1280
STREAM_HEIGHT == 720
MAX_TOUCH_SLOTS == 10

\* evdev ecodes used by the injectors (linux/input-event-codes.h values).
EV_SYN == 0
EV_KEY == 1
EV_ABS == 3
SYN_REPORT == 0
ABS_X == 0
ABS_Y == 1
ABS_MT_SLOT == 47
ABS_MT_POSITION_X == 53
ABS_MT_POSITION_Y == 54
ABS_MT_TRACKING_ID == 57
BTN_TOUCH == 330
KEY_A == 30

\* KEYBOARD_KEYS, by ecodes value: KEY_ESC..KEY_RIGHTSHIFT (1..54), KEY_LEFTALT,
\* KEY_SPACE, KEY_F1..KEY_F10 (59..68), KEY_F11, KEY_F12, KEY_RIGHTCTRL,
\* KEY_RIGHTALT, KEY_HOME, KEY_UP, KEY_PAGEUP, KEY_LEFT, KEY_RIGHT, KEY_END,
\* KEY_DOWN, KEY_PAGEDOWN, KEY_DELETE.
KEYBOARD_KEYS ==
    (1..54) \cup {56, 57} \cup (59..68)
    \cup {87, 88, 97, 100, 102, 103, 104, 105, 106, 107, 108, 109, 111}

\* ------------------------------------------------------------------ inputs
\* The wire fields are signed 16-bit; the kind is one unsigned byte.
I16Min == -32768
I16Max == 32767

\* Kinds offered to the injector: the five known ones and two unknown bytes.
EvtTypes == {EVT_MOUSE_MOVE, EVT_MOUSE_DOWN, EVT_MOUSE_UP, EVT_KEY_DOWN, EVT_KEY_UP, 5, 255}
\* arg1: X for touch kinds, key code for key kinds (30 is KEY_A, 330 is BTN_TOUCH).
Arg1s == {-1, 0, KEY_A, BTN_TOUCH, STREAM_WIDTH}
\* arg2: Y for touch kinds.
Arg2s == {-1, 200, STREAM_HEIGHT}
\* arg3: slot id before clamping.
Arg3s == {I16Min, -1, 0, 1, MAX_TOUCH_SLOTS - 1, MAX_TOUCH_SLOTS, I16Max}
\* arg4: unused by every kind.
Arg4s == {0, 7}

Events == [evt_type : EvtTypes, arg1 : Arg1s, arg2 : Arg2s, arg3 : Arg3s, arg4 : Arg4s]

\* The record of "no event" kept while the last operation was not an event.
NoEvent == [evt_type |-> -1, arg1 |-> 0, arg2 |-> 0, arg3 |-> 0, arg4 |-> 0]

\* ----------------------------------------------------------------- helpers
Max(a, b) == IF a >= b THEN a ELSE b
Min(a, b) == IF a <= b THEN a ELSE b

Range(s) == {s[i] : i \in 1..Len(s)}

\* One device primitive: the arguments of dev.write(etype, code, value).
Write(etype, code, value) == <<etype, code, value>>

\* dev.syn() is dev.write(EV_SYN, SYN_REPORT, 0).
Syn == Write(EV_SYN, SYN_REPORT, 0)

\* --------------------------------------------- input_server.handle_event
\* slot = max(0, min(9, arg3)), with the upper bound forgotten.
clamp_slot_no_upper(arg3) == Max(0, arg3)

\* slot = max(0, min(9, arg3))
clamp_slot(arg3) == Max(0, Min(9, arg3))

\* The position copied to the single-touch axes whatever the slot.
mirror_writes_always(slot, arg1, arg2) ==
    <<Write(EV_ABS, ABS_X, arg1), Write(EV_ABS, ABS_Y, arg2)>>

\* if slot == 0: the position is copied to the single-touch axes.
mirror_writes(slot, arg1, arg2) ==
    IF slot = 0
    THEN <<Write(EV_ABS, ABS_X, arg1), Write(EV_ABS, ABS_Y, arg2)>>
    ELSE <<>>

\* The EVT_MOUSE_MOVE branch with the tracking id written as in a DOWN.
move_writes_with_tracking(slot, arg1, arg2) ==
    <<Write(EV_ABS, ABS_MT_SLOT, slot),
      Write(EV_ABS, ABS_MT_TRACKING_ID, slot),
      Write(EV_ABS, ABS_MT_POSITION_X, arg1),
      Write(EV_ABS, ABS_MT_POSITION_Y, arg2)>>
    \o mirror_writes(slot, arg1, arg2) \o <<Syn>>

\* The EVT_MOUSE_MOVE branch.
move_writes(slot, arg1, arg2) ==
    <<Write(EV_ABS, ABS_MT_SLOT, slot),
      Write(EV_ABS, ABS_MT_POSITION_X, arg1),
      Write(EV_ABS, ABS_MT_POSITION_Y, arg2)>>
    \o mirror_writes(slot, arg1, arg2) \o <<Syn>>

\* The EVT_MOUSE_DOWN branch with BTN_TOUCH=1 written for every DOWN.
down_writes_edge_per_event(slot, arg1, arg2, after) ==
    <<Write(EV_ABS, ABS_MT_SLOT, slot),
      Write(EV_ABS, ABS_MT_TRACKING_ID, slot),
      Write(EV_ABS, ABS_MT_POSITION_X, arg1),
      Write(EV_ABS, ABS_MT_POSITION_Y, arg2),
      Write(EV_KEY, BTN_TOUCH, 1)>>
    \o mirror_writes(slot, arg1, arg2) \o <<Syn>>

\* The EVT_MOUSE_DOWN branch with the single-touch mirror written before BTN_TOUCH.
down_writes_mirror_first(slot, arg1, arg2, after) ==
    <<Write(EV_ABS, ABS_MT_SLOT, slot),
      Write(EV_ABS, ABS_MT_TRACKING_ID, slot),
      Write(EV_ABS, ABS_MT_POSITION_X, arg1),
      Write(EV_ABS, ABS_MT_POSITION_Y, arg2)>>
    \o mirror_writes(slot, arg1, arg2)
    \o (IF Cardinality(after) = 1 THEN <<Write(EV_KEY, BTN_TOUCH, 1)>> ELSE <<>>)
    \o <<Syn>>

\* The EVT_MOUSE_DOWN branch with the tracking id written before the slot is selected.
down_writes_tracking_first(slot, arg1, arg2, after) ==
    <<Write(EV_ABS, ABS_MT_TRACKING_ID, slot),
      Write(EV_ABS, ABS_MT_SLOT, slot),
      Write(EV_ABS, ABS_MT_POSITION_X, arg1),
      Write(EV_ABS, ABS_MT_POSITION_Y, arg2)>>
    \o (IF Cardinality(after) = 1 THEN <<Write(EV_KEY, BTN_TOUCH, 1)>> ELSE <<>>)
    \o mirror_writes(slot, arg1, arg2) \o <<Syn>>

\* The EVT_MOUSE_DOWN branch; `after` is active_slots after active_slots.add(slot).
down_writes(slot, arg1, arg2, after) ==
    <<Write(EV_ABS, ABS_MT_SLOT, slot),
      Write(EV_ABS, ABS_MT_TRACKING_ID, slot),
      Write(EV_ABS, ABS_MT_POSITION_X, arg1),
      Write(EV_ABS, ABS_MT_POSITION_Y, arg2)>>
    \o (IF Cardinality(after) = 1 THEN <<Write(EV_KEY, BTN_TOUCH, 1)>> ELSE <<>>)
    \o mirror_writes(slot, arg1, arg2) \o <<Syn>>

\* The EVT_MOUSE_UP branch; `after` is active_slots after active_slots.discard(slot).
up_writes(slot, after) ==
    <<Write(EV_ABS, ABS_MT_SLOT, slot),
      Write(EV_ABS, ABS_MT_TRACKING_ID, -1)>>
    \o (IF after = {} THEN <<Write(EV_KEY, BTN_TOUCH, 0)>> ELSE <<>>)
    \o <<Syn>>

\* The key branches with every key edge followed by the opposite edge.
key_writes_both_edges(arg1, value) ==
    <<Write(EV_KEY, arg1, value), Syn, Write(EV_KEY, arg1, 1 - value), Syn>>

\* The EVT_KEY_DOWN (value 1) and EVT_KEY_UP (value 0) branches.
key_writes(arg1, value) == <<Write(EV_KEY, arg1, value), Syn>>

\* The slot set with a DOWN on an active slot dropping it instead of keeping it.
handle_event_slots_toggle(evt_type, arg3, active) ==
    LET slot == clamp_slot(arg3) IN
    IF evt_type = EVT_MOUSE_DOWN
    THEN (IF slot \in active THEN active \ {slot} ELSE active \cup {slot})
    ELSE IF evt_type = EVT_MOUSE_UP THEN active \ {slot}
    ELSE active

\* The slot set with a MOVE marking its slot active as well.
handle_event_slots_move_adds(evt_type, arg3, active) ==
    LET slot == clamp_slot(arg3) IN
    IF evt_type \in {EVT_MOUSE_DOWN, EVT_MOUSE_MOVE} THEN active \cup {slot}
    ELSE IF evt_type = EVT_MOUSE_UP THEN active \ {slot}
    ELSE active

\* The effect of handle_event on the module-level active_slots set.
handle_event_slots(evt_type, arg3, active) ==
    LET slot == clamp_slot(arg3) IN
    IF evt_type = EVT_MOUSE_DOWN THEN active \cup {slot}
    ELSE IF evt_type = EVT_MOUSE_UP THEN active \ {slot}
    ELSE active

\* active_slots.discard(slot) done with set.remove: KeyError when the slot is
\* not in the set.
handle_event_raises_remove(evt_type, arg3, active) ==
    evt_type = EVT_MOUSE_UP /\ clamp_slot(arg3) \notin active

\* Whether handle_event raises on its own account, before its first write.
\* max/min, set.add and set.discard accept every int and every slot state
\* (discard of a missing slot is a no-op) and no branch looks a slot up, so
\* only dev.write / dev.syn can raise.
handle_event_raises(evt_type, arg3, active) == FALSE

\* handle_event with a final else in place of the last elif: every kind that
\* is not one of the first four is handled as EVT_KEY_UP.
handle_event_writes_else_key_up(evt_type, arg1, arg2, arg3, arg4, active) ==
    LET slot == clamp_slot(arg3)
        after == handle_event_slots(evt_type, arg3, active)
    IN  CASE evt_type = EVT_MOUSE_MOVE -> move_writes(slot, arg1, arg2)
          [] evt_type = EVT_MOUSE_DOWN -> down_writes(slot, arg1, arg2, after)
          [] evt_type = EVT_MOUSE_UP -> up_writes(slot, after)
          [] evt_type = EVT_KEY_DOWN -> key_writes(arg1, 1)
          [] OTHER -> key_writes(arg1, 0)

\* The dev.write / dev.syn calls of handle_event, in program order, when none
\* of them raises.  `active` is active_slots on entry; an unknown kind falls
\* through the if/elif chain and writes nothing.
\* The slot taken from arg4 instead of arg3.
handle_event_writes_slot_from_arg4(evt_type, arg1, arg2, arg3, arg4, active) ==
    LET slot == clamp_slot(arg4)
        after == handle_event_slots(evt_type, arg3, active)
    IN  CASE evt_type = EVT_MOUSE_MOVE -> move_writes(slot, arg1, arg2)
          [] evt_type = EVT_MOUSE_DOWN -> down_writes(slot, arg1, arg2, after)
          [] evt_type = EVT_MOUSE_UP -> up_writes(slot, after)
          [] evt_type = EVT_KEY_DOWN -> key_writes(arg1, 1)
          [] evt_type = EVT_KEY_UP -> key_writes(arg1, 0)
          [] OTHER -> <<>>

handle_event_writes(evt_type, arg1, arg2, arg3, arg4, active) ==
    LET slot == clamp_slot(arg3)
        after == handle_event_slots(evt_type, arg3, active)
    IN  CASE evt_type = EVT_MOUSE_MOVE -> move_writes(slot, arg1, arg2)
          [] evt_type = EVT_MOUSE_DOWN -> down_writes(slot, arg1, arg2, after)
          [] evt_type = EVT_MOUSE_UP -> up_writes(slot, after)
          [] evt_type = EVT_KEY_DOWN -> key_writes(arg1, 1)
          [] evt_type = EVT_KEY_UP -> key_writes(arg1, 0)
          [] OTHER -> <<>>

\* ------------------------------------- webrtc_stream.InputInjector.handle_event
\* slot = max(0, min(MAX_TOUCH_SLOTS - 1, arg3))
\* The clamp with the slot count as its upper end.
InputInjector_clamp_slot_to_slot_count(arg3) == Max(0, Min(MAX_TOUCH_SLOTS, arg3))

InputInjector_clamp_slot(arg3) == Max(0, Min(MAX_TOUCH_SLOTS - 1, arg3))

InputInjector_mirror_writes(slot, arg1, arg2) ==
    IF slot = 0
    THEN <<Write(EV_ABS, ABS_X, arg1), Write(EV_ABS, ABS_Y, arg2)>>
    ELSE <<>>

InputInjector_move_writes(slot, arg1, arg2) ==
    <<Write(EV_ABS, ABS_MT_SLOT, slot),
      Write(EV_ABS, ABS_MT_POSITION_X, arg1),
      Write(EV_ABS, ABS_MT_POSITION_Y, arg2)>>
    \o InputInjector_mirror_writes(slot, arg1, arg2) \o <<Syn>>

InputInjector_down_writes(slot, arg1, arg2, after) ==
    <<Write(EV_ABS, ABS_MT_SLOT, slot),
      Write(EV_ABS, ABS_MT_TRACKING_ID, slot),
      Write(EV_ABS, ABS_MT_POSITION_X, arg1),
      Write(EV_ABS, ABS_MT_POSITION_Y, arg2)>>
    \o (IF Cardinality(after) = 1 THEN <<Write(EV_KEY, BTN_TOUCH, 1)>> ELSE <<>>)
    \o InputInjector_mirror_writes(slot, arg1, arg2) \o <<Syn>>

InputInjector_up_writes(slot, after) ==
    <<Write(EV_ABS, ABS_MT_SLOT, slot),
      Write(EV_ABS, ABS_MT_TRACKING_ID, -1)>>
    \o (IF after = {} THEN <<Write(EV_KEY, BTN_TOUCH, 0)>> ELSE <<>>)
    \o <<Syn>>

InputInjector_key_writes(arg1, value) == <<Write(EV_KEY, arg1, value), Syn>>

InputInjector_handle_event_slots(evt_type, arg3, active) ==
    LET slot == InputInjector_clamp_slot(arg3) IN
    IF evt_type = EVT_MOUSE_DOWN THEN active \cup {slot}
    ELSE IF evt_type = EVT_MOUSE_UP THEN active \ {slot}
    ELSE active

InputInjector_handle_event_raises(evt_type, arg3, active) == FALSE

InputInjector_handle_event_writes(evt_type, arg1, arg2, arg3, arg4, active) ==
    LET slot == InputInjector_clamp_slot(arg3)
        after == InputInjector_handle_event_slots(evt_type, arg3, active)
    IN  CASE evt_type = EVT_MOUSE_MOVE -> InputInjector_move_writes(slot, arg1, arg2)
          [] evt_type = EVT_MOUSE_DOWN -> InputInjector_down_writes(slot, arg1, arg2, after)
          [] evt_type = EVT_MOUSE_UP -> InputInjector_up_writes(slot, after)
          [] evt_type = EVT_KEY_DOWN -> InputInjector_key_writes(arg1, 1)
          [] evt_type = EVT_KEY_UP -> InputInjector_key_writes(arg1, 0)
          [] OTHER -> <<>>

\* ------------------------------------------------------------------- state
VARIABLES
    deployment,     \* which program runs: "input_server" or "webrtc_stream"
    proc,           \* "running", "exited" (end of main, sys.exit) or "fatal" (startup died)
    input_injector, \* "created" or "None" (StreamServer.input_injector / dev)
    dev_open,       \* the UInput handle is open
    active_slots,   \* active_slots / InputInjector.active_slots
    dev_btn_touch,  \* value of the last EV_KEY/BTN_TOUCH write the device received
    viewer_ws,      \* StreamServer.viewer_ws: "None" or "ws"
    stream,         \* StreamServer.stream: "None" or "started"
    op,             \* the operation that just ran ("idle" once it has returned)
    evt,            \* the event that operation applied (NoEvent otherwise)
    prev_slots,     \* active_slots on entry to that operation
    emitted,        \* the device writes that operation performed, in order
    trace,          \* scenario runs: the events applied since the start, in order
    dev_log,        \* scenario runs: every write the device received, in order
    hold_phase,     \* multi-finger hold scenario: "down" (pressing) or "up" (lifting)
    hold_n,         \* multi-finger hold scenario: number of DOWNs applied
    n_press,        \* multi-finger hold scenario: press-edges the device received
    n_release,      \* multi-finger hold scenario: release-edges the device received
    datagram,       \* buffer scenario: records of the buffer in hand not yet unpacked
    n_recv,         \* buffer scenario: buffers received so far
    n_records,      \* buffer scenario: whole records received so far, over all buffers
    last_seq,       \* buffer scenario: arrival number of the record last handed to handle_event
    err_seq,        \* buffer scenario: arrival number of the first record whose write raised (0: none)
    dg_first,       \* buffer scenario: arrival number of the first record of the buffer in hand
    wire_phase,     \* wire scenario: "idle", "decoding" (in the unpack loop) or "done"
    sent,           \* wire scenario: the records the sender encoded, in order
    wire,           \* wire scenario: the bytes of the received buffer
    offset,         \* wire scenario: the unpack loop's offset into the buffer
    decoded,        \* wire scenario: what unpack_from returned, in order
    relay_phase,    \* web_receiver: "off", "serving" (no browser), "open" (in ws_handler's loop)
    sender_addr,    \* web_receiver StreamServer.sender_addr: "None" or "addr"
    frame,          \* web_receiver: the frame ws_handler received last (NoFrame: none yet)
    sendto_called,  \* web_receiver: ws_handler called udp_sock.sendto for that frame
    udp,            \* datagrams sent to the input port and not yet received (bytes, and the records encoded in them)
    n_frames,       \* web_receiver: frames received so far
    twin_slots,     \* paired runs: active_slots of the second injector
    twin_btn,       \* paired runs: touch-button state of the second device
    twin_log,       \* paired runs: every write the second device received, in order
    twin_diff,      \* paired runs: the two streams have differed in a timestamp or an arg4
    calls,          \* step scenario: per thread, the handle_event execution in progress (NoCall: none)
    n_calls,        \* step scenario: handle_event executions started so far
    write_owner,    \* step scenario: for each write the device received, the execution that made it
    sender,         \* legacy senders: "off", "receive_and_decode", "input_sender_loop" or "page"
    udp_dest,       \* legacy senders: receiver.py's sender_addr ("None" or "addr")
    sender_phase,   \* legacy senders: "off", "accept" (main waits in srv.accept) or "loop" (in the event loop)
    running_event,  \* legacy senders: the threading.Event of the call in progress is set
    pressed,        \* legacy senders: the mouse buttons held down
    fingers,        \* legacy senders: number of fingers on the page's video element
    pg_queue,       \* legacy senders: pygame's event queue
    pg_batch,       \* legacy senders: the rest of the list pygame.event.get() returned
    touching,       \* legacy senders: the touching flag of receive_and_decode or of the page
    page_ws_open,   \* legacy senders: the page's ws exists and its readyState is 1
    sender_sent,    \* legacy senders: what the host unpacks from each packet sent, in order
    sender_cause,   \* legacy senders: for each packet sent, the input event handled
    n_inputs,       \* legacy senders: input events so far
    ws_pc,          \* viewer scenario: per connection, where its _ws_handler stands
    close_code,     \* viewer scenario: per connection, the code its handler closed it with (0: none)
    pipeline_starts,\* viewer scenario: per connection, the stream.start calls made for it
    remote_description, \* viewer scenario: the stream in use has been given an SDP answer
    idToSlot,       \* WebRTC page: Touch.identifier -> slot
    slotUsed,       \* WebRTC page: per slot, whether it is taken
    live,           \* WebRTC page: identifiers of the touches on the video element
    mouseDown,      \* WebRTC page: the mouseDown flag
    dc,             \* WebRTC page: the data channel: "null", or its readyState "open" / "closed"
    client_ws,      \* WebRTC page: the signaling socket: "open", or "retry" after onclose
    dc_queue,       \* what the host will unpack from the messages sent on the channel and not yet delivered
    made,           \* WebRTC page: the events the last handler handed to sendEvt
    last_handler,   \* WebRTC page: the handler that ran last
    last_id,        \* WebRTC page: the touch identifier it ran for (-1: none)
    clients,        \* web_receiver StreamServer.clients
    browser_pc,     \* web_receiver: per connection, where its ws_handler stands
    init_segment,   \* web_receiver: StreamServer.init_segment is set
    init_done,      \* web_receiver push(): init_done
    push_pc,        \* web_receiver push(): "off", "read", "send" (in broadcast), "error" or "eof"
    bc_used,        \* broadcast: size of clients when the for loop's iterator was made
    bc_visited,     \* broadcast: the clients the for loop has reached
    bc_ws,          \* broadcast: the client whose send is awaited ("None": none)
    dead,           \* broadcast: dead
    bc_whole,       \* broadcast: clients that have been in the set since the broadcast began
    n_chunks        \* web_receiver push(): chunks read so far

injVars == <<input_injector, dev_open, active_slots, dev_btn_touch>>
srvVars == <<viewer_ws, stream>>
opVars == <<op, evt, prev_slots, emitted>>
dgVars == <<datagram, n_recv, n_records, last_seq, err_seq, dg_first>>
wireVars == <<wire_phase, sent, wire, offset, decoded>>
relayVars == <<relay_phase, sender_addr, frame, sendto_called, udp, n_frames>>
twinVars == <<twin_slots, twin_btn, twin_log, twin_diff>>
stepVars == <<calls, n_calls, write_owner>>
senderVars == <<sender, udp_dest, sender_phase, running_event, pressed, fingers, pg_queue,
                pg_batch, touching, page_ws_open, sender_sent, sender_cause, n_inputs>>
viewerVars == <<ws_pc, close_code, pipeline_starts, remote_description>>
clientVars == <<idToSlot, slotUsed, live, mouseDown, dc, client_ws, dc_queue, made,
                last_handler, last_id>>
bcastVars == <<clients, browser_pc, init_segment, init_done, push_pc, bc_used, bc_visited,
               bc_ws, dead, bc_whole, n_chunks>>
lateVars == <<senderVars, viewerVars, clientVars, bcastVars>>
extVars == <<wireVars, relayVars, twinVars, stepVars, lateVars>>
scenVars == <<trace, dev_log, hold_phase, hold_n, n_press, n_release, dgVars, extVars>>
vars == <<deployment, proc, injVars, srvVars, opVars, scenVars>>

\* Which implementation of handle_event the running program uses.
Slots(e, active) ==
    IF deployment = "input_server"
    THEN handle_event_slots(e.evt_type, e.arg3, active)
    ELSE InputInjector_handle_event_slots(e.evt_type, e.arg3, active)

Writes(e, active) ==
    IF deployment = "input_server"
    THEN handle_event_writes(e.evt_type, e.arg1, e.arg2, e.arg3, e.arg4, active)
    ELSE InputInjector_handle_event_writes(e.evt_type, e.arg1, e.arg2, e.arg3, e.arg4, active)

Raises(e, active) ==
    IF deployment = "input_server"
    THEN handle_event_raises(e.evt_type, e.arg3, active)
    ELSE InputInjector_handle_event_raises(e.evt_type, e.arg3, active)

\* The touch-button state of the device after it received the writes `ws`.
RECURSIVE ButtonAfter(_, _)
ButtonAfter(btn, ws) ==
    IF ws = <<>> THEN btn
    ELSE LET w == Head(ws) IN
         ButtonAfter(IF w[1] = EV_KEY /\ w[2] = BTN_TOUCH THEN w[3] ELSE btn, Tail(ws))

\* The virtual touchscreen as its readers see it: the selected slot, each
\* slot's tracking id and position, the single-touch axes, the touch button.
\* Every axis is declared under EV_ABS, slots 0..9, tracking ids from -1.
DeviceInit ==
    [slot |-> 0,
     tracking |-> [i \in 0..(MAX_TOUCH_SLOTS - 1) |-> -1],
     mt_x |-> [i \in 0..(MAX_TOUCH_SLOTS - 1) |-> 0],
     mt_y |-> [i \in 0..(MAX_TOUCH_SLOTS - 1) |-> 0],
     abs_x |-> 0,
     abs_y |-> 0,
     btn_touch |-> 0]

\* The device with its position axes taken as relative ones: a position write
\* moves the position by the value written.
DeviceWrite_relative(d, w) ==
    CASE w[1] = EV_ABS /\ w[2] = ABS_MT_SLOT -> [d EXCEPT !.slot = w[3]]
      [] w[1] = EV_ABS /\ w[2] = ABS_MT_TRACKING_ID -> [d EXCEPT !.tracking[d.slot] = w[3]]
      [] w[1] = EV_ABS /\ w[2] = ABS_MT_POSITION_X -> [d EXCEPT !.mt_x[d.slot] = @ + w[3]]
      [] w[1] = EV_ABS /\ w[2] = ABS_MT_POSITION_Y -> [d EXCEPT !.mt_y[d.slot] = @ + w[3]]
      [] w[1] = EV_ABS /\ w[2] = ABS_X -> [d EXCEPT !.abs_x = @ + w[3]]
      [] w[1] = EV_ABS /\ w[2] = ABS_Y -> [d EXCEPT !.abs_y = @ + w[3]]
      [] w[1] = EV_KEY /\ w[2] = BTN_TOUCH -> [d EXCEPT !.btn_touch = w[3]]
      [] OTHER -> d

\* The device after one write: an EV_ABS write sets the axis (of the selected
\* slot for the multi-touch axes) to the value written.
DeviceWrite(d, w) ==
    CASE w[1] = EV_ABS /\ w[2] = ABS_MT_SLOT -> [d EXCEPT !.slot = w[3]]
      [] w[1] = EV_ABS /\ w[2] = ABS_MT_TRACKING_ID -> [d EXCEPT !.tracking[d.slot] = w[3]]
      [] w[1] = EV_ABS /\ w[2] = ABS_MT_POSITION_X -> [d EXCEPT !.mt_x[d.slot] = w[3]]
      [] w[1] = EV_ABS /\ w[2] = ABS_MT_POSITION_Y -> [d EXCEPT !.mt_y[d.slot] = w[3]]
      [] w[1] = EV_ABS /\ w[2] = ABS_X -> [d EXCEPT !.abs_x = w[3]]
      [] w[1] = EV_ABS /\ w[2] = ABS_Y -> [d EXCEPT !.abs_y = w[3]]
      [] w[1] = EV_KEY /\ w[2] = BTN_TOUCH -> [d EXCEPT !.btn_touch = w[3]]
      [] OTHER -> d

\* The device after the writes ws, in order.
RECURSIVE DeviceAfter(_, _)
DeviceAfter(d, ws) ==
    IF ws = <<>> THEN d ELSE DeviceAfter(DeviceWrite(d, Head(ws)), Tail(ws))

\* The WebRTC page's slot count.
MAX_SLOTS == 10

\* The WebSocket connections a run of the WebRTC server receives.
MaxConns == 3
WsNames == <<"ws1", "ws2", "ws3", "ws4", "ws5">>
Conns == {WsNames[i] : i \in 1..MaxConns}

\* The threads of a process, and a thread that is not inside handle_event.
Threads == {"main", "glib", "worker"}
NoCall == [id |-> 0, todo |-> <<>>]

NoFrame == [binary |-> FALSE, recs |-> <<>>, bytes |-> <<-1>>]

\* The byte-level and relay scenarios have not started.
ExtInit ==
    /\ wire_phase = "idle"
    /\ sent = <<>>
    /\ wire = <<>>
    /\ offset = 0
    /\ decoded = <<>>
    /\ relay_phase = "off"
    /\ sender_addr = "None"
    /\ frame = NoFrame
    /\ sendto_called = FALSE
    /\ udp = <<>>
    /\ n_frames = 0
    /\ twin_slots = {}
    /\ twin_btn = 0
    /\ twin_log = <<>>
    /\ twin_diff = FALSE
    /\ calls = [t \in Threads |-> NoCall]
    /\ n_calls = 0
    /\ write_owner = <<>>
    /\ sender = "off"
    /\ udp_dest = "None"
    /\ sender_phase = "off"
    /\ running_event = FALSE
    /\ pressed = {}
    /\ fingers = 0
    /\ pg_queue = <<>>
    /\ pg_batch = <<>>
    /\ touching = FALSE
    /\ page_ws_open = FALSE
    /\ sender_sent = <<>>
    /\ sender_cause = <<>>
    /\ n_inputs = 0
    /\ ws_pc = [c \in Conns |-> "pending"]
    /\ close_code = [c \in Conns |-> 0]
    /\ pipeline_starts = [c \in Conns |-> 0]
    /\ remote_description = FALSE
    /\ idToSlot = [id \in {} |-> 0]
    /\ slotUsed = [i \in 0..(MAX_SLOTS - 1) |-> FALSE]
    /\ live = {}
    /\ mouseDown = FALSE
    /\ dc = "null"
    /\ client_ws = "open"
    /\ dc_queue = <<>>
    /\ made = <<>>
    /\ last_handler = "connect"
    /\ last_id = -1
    /\ clients = {}
    /\ browser_pc = [c \in Conns |-> "none"]
    /\ init_segment = FALSE
    /\ init_done = FALSE
    /\ push_pc = "off"
    /\ bc_used = 0
    /\ bc_visited = {}
    /\ bc_ws = "None"
    /\ dead = {}
    /\ bc_whole = {}
    /\ n_chunks = 0

Init ==
    /\ deployment \in {"input_server", "webrtc_stream"}
    \* UInput(...) succeeds or raises.
    /\ input_injector \in {"created", "None"}
    \* StreamServer.run() catches the exception and goes on without a device;
    \* input_server.main does not catch it and dies before the socket exists.
    /\ proc = (IF deployment = "input_server" /\ input_injector = "None"
               THEN "fatal" ELSE "running")
    /\ dev_open = (input_injector = "created")
    /\ active_slots = {}
    /\ dev_btn_touch = 0
    /\ viewer_ws = "None"
    /\ stream = "None"
    /\ op = "idle"
    /\ evt = NoEvent
    /\ prev_slots = {}
    /\ emitted = <<>>
    /\ trace = <<>>
    /\ dev_log = <<>>
    /\ hold_phase = "down"
    /\ hold_n = 0
    /\ n_press = 0
    /\ n_release = 0
    /\ datagram = <<>>
    /\ n_recv = 0
    /\ n_records = 0
    /\ last_seq = 0
    /\ err_seq = 0
    /\ dg_first = 0
    /\ ExtInit

\* handle_event(e) run until write number `k` of its sequence raises (k beyond
\* the last write: no write raises).  The slot set is mutated before the first
\* write, so it is mutated in either case; the writes before k reached the device.
ApplyEvent(e, k) ==
    LET raised == Raises(e, active_slots)
        ws == IF raised THEN <<>> ELSE Writes(e, active_slots)
        done == SubSeq(ws, 1, Min(k - 1, Len(ws)))
    IN  /\ active_slots' = (IF raised THEN active_slots ELSE Slots(e, active_slots))
        /\ dev_btn_touch' = ButtonAfter(dev_btn_touch, done)
        /\ evt' = e
        /\ prev_slots' = active_slots
        /\ emitted' = done

\* How the try/except around handle_event(e) ends when no write raises.
EventOutcome(e) == IF Raises(e, active_slots) THEN "event_error" ELSE "event_ok"

\* An operation that performs no device write and applies no event.
NoDeviceOp(name) ==
    /\ op' = name
    /\ evt' = NoEvent
    /\ prev_slots' = active_slots
    /\ emitted' = <<>>

\* The receive loop is back in recvfrom / the callback has returned: the
\* locals of the finished operation are gone.
handler_return ==
    /\ proc = "running"
    /\ op # "idle"
    /\ op' = "idle"
    /\ evt' = NoEvent
    /\ prev_slots' = {}
    /\ emitted' = <<>>
    /\ UNCHANGED <<deployment, proc, injVars, srvVars, scenVars>>

\* ---------------------------------------------------- input_server.main
\* One record of a datagram is unpacked and handed to handle_event inside
\* try/except Exception; every write succeeds and handle_event returns.
main_handle_event ==
    /\ deployment = "input_server"
    /\ proc = "running"
    /\ op = "idle"
    /\ \E e \in Events :
          /\ ApplyEvent(e, Len(Writes(e, active_slots)) + 1)
          /\ op' = EventOutcome(e)
    /\ UNCHANGED <<deployment, proc, input_injector, dev_open, srvVars, scenVars>>

\* The same with write number k raising: the except clause logs the error and
\* the loop goes on with the next record.
main_handle_event_write_error ==
    /\ deployment = "input_server"
    /\ proc = "running"
    /\ op = "idle"
    /\ \E e \in Events : \E k \in 1..Len(Writes(e, active_slots)) :
          /\ ApplyEvent(e, k)
          /\ op' = "event_error"
    /\ UNCHANGED <<deployment, proc, input_injector, dev_open, srvVars, scenVars>>

\* sock.recvfrom raises OSError: `break` leaves the receive loop, main returns
\* and the process ends (its device handle with it).
main_recvfrom_error ==
    /\ deployment = "input_server"
    /\ proc = "running"
    /\ op = "idle"
    /\ proc' = "exited"
    /\ dev_open' = FALSE
    /\ NoDeviceOp("recv_error")
    /\ UNCHANGED <<deployment, input_injector, active_slots, dev_btn_touch, srvVars, scenVars>>

\* on_signal between two events: sock.close(); dev.close(); sys.exit(0).
on_signal ==
    /\ deployment = "input_server"
    /\ proc = "running"
    /\ op = "idle"
    /\ proc' = "exited"
    /\ dev_open' = FALSE
    /\ NoDeviceOp("shutdown")
    /\ UNCHANGED <<deployment, input_injector, active_slots, dev_btn_touch, srvVars, scenVars>>

\* on_signal while handle_event runs (the handler runs in the main thread,
\* between two bytecodes): the first n writes of the event were made, the rest
\* never are, and the process exits through SystemExit.
on_signal_in_handle_event ==
    /\ deployment = "input_server"
    /\ proc = "running"
    /\ op = "idle"
    /\ \E e \in Events : \E k \in 1..Len(Writes(e, active_slots)) :
          ApplyEvent(e, k)
    /\ op' = "shutdown_in_event"
    /\ proc' = "exited"
    /\ dev_open' = FALSE
    /\ UNCHANGED <<deployment, input_injector, srvVars, scenVars>>

\* ---------------------------------------------- webrtc_stream.StreamServer
\* _ws_handler, no viewer yet: viewer_ws is set and the pipeline starts.
ws_handler_accept ==
    /\ deployment = "webrtc_stream"
    /\ proc = "running"
    /\ op = "idle"
    /\ viewer_ws = "None"
    /\ viewer_ws' = "ws"
    /\ stream' = "started"
    /\ NoDeviceOp("accept")
    /\ UNCHANGED <<deployment, proc, injVars, scenVars>>

\* _ws_handler, no viewer yet, stream.start raises: stop, clear, close 1011.
ws_handler_start_failed ==
    /\ deployment = "webrtc_stream"
    /\ proc = "running"
    /\ op = "idle"
    /\ viewer_ws = "None"
    /\ viewer_ws' = "None"
    /\ stream' = "None"
    /\ NoDeviceOp("start_failed")
    /\ UNCHANGED <<deployment, proc, injVars, scenVars>>

\* _ws_handler while a viewer is connected: close(1013) and return.
ws_handler_reject ==
    /\ deployment = "webrtc_stream"
    /\ proc = "running"
    /\ op = "idle"
    /\ viewer_ws # "None"
    /\ NoDeviceOp("reject")
    /\ UNCHANGED <<deployment, proc, injVars, srvVars, scenVars>>

\* _ws_handler's finally block when the viewer's socket closes:
\* stream.stop(); stream = None; viewer_ws = None.
ws_handler_disconnect ==
    /\ deployment = "webrtc_stream"
    /\ proc = "running"
    /\ op = "idle"
    /\ viewer_ws = "ws"
    /\ viewer_ws' = "None"
    /\ stream' = "None"
    /\ NoDeviceOp("disconnect")
    /\ UNCHANGED <<deployment, proc, injVars, scenVars>>

\* WebRTCStream._on_data_channel_message for one record of the payload:
\* handle_event inside try/except Exception when an injector exists; every
\* write succeeds.  Without an injector the record is skipped.
on_data_channel_message ==
    /\ deployment = "webrtc_stream"
    /\ proc = "running"
    /\ op = "idle"
    /\ stream = "started"
    /\ \/ /\ input_injector = "created"
          /\ \E e \in Events :
                /\ ApplyEvent(e, Len(Writes(e, active_slots)) + 1)
                /\ op' = EventOutcome(e)
          /\ UNCHANGED <<input_injector, dev_open>>
       \/ /\ input_injector = "None"
          /\ NoDeviceOp("event_dropped")
          /\ UNCHANGED injVars
    /\ UNCHANGED <<deployment, proc, srvVars, scenVars>>

\* The same with write number k raising: the except clause logs the error.
on_data_channel_message_write_error ==
    /\ deployment = "webrtc_stream"
    /\ proc = "running"
    /\ op = "idle"
    /\ stream = "started"
    /\ input_injector = "created"
    /\ \E e \in Events : \E k \in 1..Len(Writes(e, active_slots)) :
          /\ ApplyEvent(e, k)
          /\ op' = "event_error"
    /\ UNCHANGED <<deployment, proc, input_injector, dev_open, srvVars, scenVars>>

\* main.on_signal -> StreamServer.cleanup(): stream.stop() if a stream exists,
\* input_injector.close() if an injector exists; then sys.exit(0).
cleanup ==
    /\ deployment = "webrtc_stream"
    /\ proc = "running"
    /\ op = "idle"
    /\ proc' = "exited"
    /\ dev_open' = FALSE
    /\ NoDeviceOp("shutdown")
    /\ UNCHANGED <<deployment, input_injector, active_slots, dev_btn_touch, srvVars, scenVars>>

\* cleanup() arriving while handle_event runs for a data-channel message.
cleanup_in_handle_event ==
    /\ deployment = "webrtc_stream"
    /\ proc = "running"
    /\ op = "idle"
    /\ stream = "started"
    /\ input_injector = "created"
    /\ \E e \in Events : \E k \in 1..Len(Writes(e, active_slots)) :
          ApplyEvent(e, k)
    /\ op' = "shutdown_in_event"
    /\ proc' = "exited"
    /\ dev_open' = FALSE
    /\ UNCHANGED <<deployment, input_injector, srvVars, scenVars>>

\* Every write to the device succeeds and shutdown falls between two events.
DeviceOkNext ==
    \/ handler_return
    \/ main_handle_event
    \/ main_recvfrom_error
    \/ on_signal
    \/ ws_handler_accept
    \/ ws_handler_start_failed
    \/ ws_handler_reject
    \/ ws_handler_disconnect
    \/ on_data_channel_message
    \/ cleanup

\* Writes may raise and shutdown may fall inside handle_event.
Next ==
    \/ handler_return
    \/ main_handle_event
    \/ main_handle_event_write_error
    \/ main_recvfrom_error
    \/ on_signal
    \/ on_signal_in_handle_event
    \/ ws_handler_accept
    \/ ws_handler_start_failed
    \/ ws_handler_reject
    \/ ws_handler_disconnect
    \/ on_data_channel_message
    \/ on_data_channel_message_write_error
    \/ cleanup
    \/ cleanup_in_handle_event

SpecDeviceOk == Init /\ [][DeviceOkNext]_vars

Spec == Init /\ [][Next]_vars

\* ---------------------------------------------------------- scenario runs
\* A started program whose injector receives events: input_server after bind,
\* webrtc_stream with a viewer connected and the data channel wired up.
ServingInit ==
    /\ deployment \in {"input_server", "webrtc_stream"}
    /\ proc = "running"
    /\ input_injector = "created"
    /\ dev_open = TRUE
    /\ active_slots = {}
    /\ dev_btn_touch = 0
    /\ viewer_ws = (IF deployment = "webrtc_stream" THEN "ws" ELSE "None")
    /\ stream = (IF deployment = "webrtc_stream" THEN "started" ELSE "None")
    /\ op = "idle"
    /\ evt = NoEvent
    /\ prev_slots = {}
    /\ emitted = <<>>
    /\ trace = <<>>
    /\ dev_log = <<>>
    /\ hold_phase = "down"
    /\ hold_n = 0
    /\ n_press = 0
    /\ n_release = 0
    /\ datagram = <<>>
    /\ n_recv = 0
    /\ n_records = 0
    /\ last_seq = 0
    /\ err_seq = 0
    /\ dg_first = 0
    /\ ExtInit

\* Number of occurrences of write w in the sequence ws.
RECURSIVE CountOf(_, _)
CountOf(w, ws) ==
    IF ws = <<>> THEN 0
    ELSE (IF Head(ws) = w THEN 1 ELSE 0) + CountOf(w, Tail(ws))

\* handle_event(e) with every write succeeding, as the receive path runs it.
ApplyEventOk(e) ==
    /\ ApplyEvent(e, Len(Writes(e, active_slots)) + 1)
    /\ op' = EventOutcome(e)

\* Events of the recorded runs: touch kinds on the primary and one other slot.
MaxTrace == 3
TraceEvents ==
    [evt_type : {EVT_MOUSE_MOVE, EVT_MOUSE_DOWN, EVT_MOUSE_UP},
     arg1 : {100, 640}, arg2 : {200, 360}, arg3 : {0, 1}, arg4 : {0}]

\* One event received and applied, the whole device stream recorded.
trace_handle_event ==
    /\ Len(trace) < MaxTrace
    /\ \E e \in TraceEvents :
          /\ ApplyEventOk(e)
          /\ trace' = Append(trace, e)
          /\ dev_log' = dev_log \o Writes(e, active_slots)
    /\ UNCHANGED <<deployment, proc, input_injector, dev_open, srvVars,
                   hold_phase, hold_n, n_press, n_release, dgVars, extVars>>

TraceNext ==
    \/ trace_handle_event

SpecTrace == ServingInit /\ [][TraceNext]_vars

\* Slot clamping over the whole wire range of arg3: one touch record with any
\* 16-bit arg3 has been unpacked (evt) while no slot or every slot is active,
\* and is then handed to handle_event.
ClampInit ==
    /\ deployment \in {"input_server", "webrtc_stream"}
    /\ proc = "running"
    /\ input_injector = "created"
    /\ dev_open = TRUE
    /\ active_slots \in {{}, 0..(MAX_TOUCH_SLOTS - 1)}
    /\ dev_btn_touch = (IF active_slots = {} THEN 0 ELSE 1)
    /\ viewer_ws = (IF deployment = "webrtc_stream" THEN "ws" ELSE "None")
    /\ stream = (IF deployment = "webrtc_stream" THEN "started" ELSE "None")
    /\ op = "unpacked"
    /\ evt \in [evt_type : {EVT_MOUSE_MOVE, EVT_MOUSE_DOWN, EVT_MOUSE_UP},
                arg1 : {100}, arg2 : {200}, arg3 : I16Min..I16Max, arg4 : {0}]
    /\ prev_slots = active_slots
    /\ emitted = <<>>
    /\ trace = <<>>
    /\ dev_log = <<>>
    /\ hold_phase = "down"
    /\ hold_n = 0
    /\ n_press = 0
    /\ n_release = 0
    /\ datagram = <<>>
    /\ n_recv = 0
    /\ n_records = 0
    /\ last_seq = 0
    /\ err_seq = 0
    /\ dg_first = 0
    /\ ExtInit

clamp_handle_event ==
    /\ op = "unpacked"
    /\ ApplyEventOk(evt)
    /\ UNCHANGED <<deployment, proc, input_injector, dev_open, srvVars, scenVars>>

ClampNext ==
    \/ clamp_handle_event

SpecClamp == ClampInit /\ [][ClampNext]_vars

\* Multi-finger hold: DOWNs on distinct (still inactive) slots, then the
\* matching UPs in any order, all at one position.
HoldEvent(kind, s) ==
    [evt_type |-> kind, arg1 |-> 100, arg2 |-> 200, arg3 |-> s, arg4 |-> 0]

HoldApply(e) ==
    /\ ApplyEventOk(e)
    /\ n_press' = n_press + CountOf(Write(EV_KEY, BTN_TOUCH, 1), Writes(e, active_slots))
    /\ n_release' = n_release + CountOf(Write(EV_KEY, BTN_TOUCH, 0), Writes(e, active_slots))
    /\ UNCHANGED <<deployment, proc, input_injector, dev_open, srvVars, trace, dev_log, dgVars, extVars>>

hold_down ==
    /\ hold_phase = "down"
    /\ \E s \in (0..(MAX_TOUCH_SLOTS - 1)) \ active_slots :
          HoldApply(HoldEvent(EVT_MOUSE_DOWN, s))
    /\ hold_n' = hold_n + 1
    /\ hold_phase' = "down"

hold_up ==
    /\ \E s \in active_slots :
          HoldApply(HoldEvent(EVT_MOUSE_UP, s))
    /\ hold_phase' = "up"
    /\ hold_n' = hold_n

HoldNext ==
    \/ hold_down
    \/ hold_up

SpecHold == ServingInit /\ [][HoldNext]_vars

\* Buffers of records: main's recvfrom loop and _on_data_channel_message both
\* walk the buffer record by record (while offset + EVENT_SIZE <= len) with the
\* try/except around each handle_event call.
MaxRecords == 2
MaxBuffers == 2

\* Records of the buffers: the touch kinds on the primary slot.
BufferEvents ==
    [evt_type : {EVT_MOUSE_MOVE, EVT_MOUSE_DOWN, EVT_MOUSE_UP},
     arg1 : {100}, arg2 : {200}, arg3 : {0}, arg4 : {0}]

\* The records of one received buffer, numbered by arrival; a buffer shorter
\* than one record holds none.
BufferRecords ==
    UNION { [1..n -> BufferEvents] : n \in 0..MaxRecords }

\* The loop with the try/except around the whole record loop: what is left of
\* the buffer is skipped once a record has raised.
records_after_error_skip_rest(rest) == <<>>

\* The records of the buffer still to be unpacked after handle_event raised
\* for one record: the except clause is inside the while loop, which goes on
\* with offset already advanced.
records_after_error(rest) == rest

\* A receive that does not wait for the record loop to end.
buffer_done_at_any_time(rest) == TRUE

\* The while loop over the buffer has ended: no whole record is left.
buffer_done(rest) == rest = <<>>

\* sock.recvfrom(256) / the data-channel callback delivers the next buffer while
\* none is in hand.
recv_buffer ==
    /\ proc = "running"
    /\ buffer_done(datagram)
    /\ n_recv < MaxBuffers
    /\ \E recs \in BufferRecords :
          /\ datagram' = [i \in 1..Len(recs) |-> [seq |-> n_records + i, e |-> recs[i]]]
          /\ n_records' = n_records + Len(recs)
    /\ n_recv' = n_recv + 1
    /\ dg_first' = n_records + 1
    /\ NoDeviceOp("recv")
    /\ UNCHANGED <<deployment, proc, injVars, srvVars, last_seq, err_seq,
                   trace, dev_log, hold_phase, hold_n, n_press, n_release, extVars>>

\* The next record of the buffer is unpacked and handle_event returns.
buffer_record ==
    /\ proc = "running"
    /\ datagram # <<>>
    /\ ApplyEventOk(Head(datagram).e)
    /\ last_seq' = Head(datagram).seq
    /\ datagram' = Tail(datagram)
    /\ UNCHANGED <<deployment, proc, input_injector, dev_open, srvVars, n_recv, n_records,
                   err_seq, dg_first, trace, dev_log, hold_phase, hold_n, n_press, n_release, extVars>>

\* The next record of the buffer is unpacked and write number k of
\* handle_event raises: the except clause logs the error.
buffer_record_write_error ==
    /\ proc = "running"
    /\ datagram # <<>>
    /\ \E k \in 1..Len(Writes(Head(datagram).e, active_slots)) :
          ApplyEvent(Head(datagram).e, k)
    /\ op' = "event_error"
    /\ last_seq' = Head(datagram).seq
    /\ err_seq' = (IF err_seq = 0 THEN Head(datagram).seq ELSE err_seq)
    /\ datagram' = records_after_error(Tail(datagram))
    /\ UNCHANGED <<deployment, proc, input_injector, dev_open, srvVars, n_recv, n_records,
                   dg_first, trace, dev_log, hold_phase, hold_n, n_press, n_release, extVars>>

BufferNext ==
    \/ recv_buffer
    \/ buffer_record
    \/ buffer_record_write_error

SpecBuffer == ServingInit /\ [][BufferNext]_vars

\* ------------------------------------------------------------- wire format
\* struct format "<BIhhhh": little-endian, standard sizes, no alignment.
EVENT_SIZE == 13

\* A u32 is held as its two 16-bit halves (lo, hi), so that
\* every value of the range is representable; a clock reading carries the
\* bits above 2^32 in a third field (ovf).

\* struct.pack of one field, for a value inside the field's range.
pack_B(v) == <<v>>

pack_I(v) == <<v.lo % 256, v.lo \div 256, v.hi % 256, v.hi \div 256>>

pack_h(v) ==
    LET u == IF v < 0 THEN v + 65536 ELSE v
    IN  <<u % 256, u \div 256>>

\* The same fields under native alignment (format without "<"): the u32 is
\* aligned to four bytes.
struct_pack_native_alignment(evt_type, ts, arg1, arg2, arg3, arg4) ==
    pack_B(evt_type) \o <<0, 0, 0>> \o pack_I(ts)
        \o pack_h(arg1) \o pack_h(arg2) \o pack_h(arg3) \o pack_h(arg4)

\* struct.pack(EVENT_FMT, evt_type, ts, arg1, arg2, arg3, arg4)
struct_pack(evt_type, ts, arg1, arg2, arg3, arg4) ==
    pack_B(evt_type) \o pack_I(ts)
        \o pack_h(arg1) \o pack_h(arg2) \o pack_h(arg3) \o pack_h(arg4)

\* ts = int(time.monotonic() * 1000) & 0xFFFFFFFF
mask_u32(now) == [lo |-> now.lo, hi |-> now.hi]

\* receiver.make_event, the clock reading made explicit.
make_event(evt_type, now, arg1, arg2, arg3, arg4) ==
    struct_pack(evt_type, mask_u32(now), arg1, arg2, arg3, arg4)

\* DataView setters: the value is wrapped to the field's width.
DataView_setUint8(v) == <<v % 256>>

DataView_setUint32(v) == pack_I(v)

DataView_setInt16(v) ==
    LET u == v % 65536
    IN  <<u % 256, u \div 256>>

\* mkEvt(type, x, y, slot) of the WebRTC page, the clock reading made explicit.
mkEvt(type, now, x, y, slot) ==
    DataView_setUint8(type) \o DataView_setUint32(mask_u32(now))
        \o DataView_setInt16(x) \o DataView_setInt16(y)
        \o DataView_setInt16(slot) \o DataView_setInt16(0)

\* mkEvt(type, x, y) of the relay page: slot and arg4 are always 0.
web_mkEvt(type, now, x, y) ==
    DataView_setUint8(type) \o DataView_setUint32(mask_u32(now))
        \o DataView_setInt16(x) \o DataView_setInt16(y)
        \o DataView_setInt16(0) \o DataView_setInt16(0)

\* struct.unpack_from of one field at byte offset o (0-based) of buf.
unpack_B(buf, o) == buf[o + 1]

unpack_I(buf, o) ==
    [lo |-> buf[o + 1] + 256 * buf[o + 2], hi |-> buf[o + 3] + 256 * buf[o + 4]]

\* Format "H": the two bytes read as an unsigned value.
unpack_H(buf, o) == buf[o + 1] + 256 * buf[o + 2]

unpack_h(buf, o) ==
    LET u == buf[o + 1] + 256 * buf[o + 2]
    IN  IF u >= 32768 THEN u - 65536 ELSE u

StructError == [error |-> "struct.error"]

\* struct.unpack_from(EVENT_FMT, data, offset)
struct_unpack_from(buf, o) ==
    IF o + EVENT_SIZE > Len(buf)
    THEN StructError
    ELSE [evt_type |-> unpack_B(buf, o),
          arg1 |-> unpack_h(buf, o + 5), arg2 |-> unpack_h(buf, o + 7),
          arg3 |-> unpack_h(buf, o + 9), arg4 |-> unpack_h(buf, o + 11),
          ts |-> unpack_I(buf, o + 1)]

\* A loop that goes on while any byte is left.
more_records_while_bytes_left(o, n) == o < n

\* while offset + EVENT_SIZE <= len(data)
more_records(o, n) == o + EVENT_SIZE <= n

\* What handle_event is called with: the timestamp is dropped.
Args(r) ==
    [evt_type |-> r.evt_type, arg1 |-> r.arg1, arg2 |-> r.arg2,
     arg3 |-> r.arg3, arg4 |-> r.arg4]

\* Field values at and around the edges of each field's range.
CodecKinds == {0, EVT_KEY_DOWN, 255}
CodecClocks == [lo : {0, 255, 256, 65535}, hi : {0, 32768, 65535}, ovf : {0, 1}]
CodecArg1s == {I16Min, -1, 0, 255, 256, I16Max}
CodecArg2s == {I16Min, 200, I16Max}
CodecArg3s == {-1, 0, 9}
CodecArg4s == {I16Min, 0, I16Max}

\* The event a sender means when it encodes with clock reading `now`.
WireEvent(evt_type, now, arg1, arg2, arg3, arg4) ==
    [evt_type |-> evt_type, arg1 |-> arg1, arg2 |-> arg2, arg3 |-> arg3,
     arg4 |-> arg4, ts |-> mask_u32(now)]

\* Buffers of several records: a few touch records from receiver.make_event.
MaxWireRecords == 3
WireClocks == [lo : {513, 514}, hi : {1}, ovf : {0}]
WireRecords(now) ==
    {WireEvent(EVT_MOUSE_DOWN, now, 100, 200, 0, 0),
     WireEvent(EVT_MOUSE_MOVE, now, -1, 719, 1, 0),
     WireEvent(EVT_MOUSE_UP, now, 0, 0, 9, 0)}
WireBuffers(now) ==
    UNION {[1..n -> WireRecords(now)] : n \in 0..MaxWireRecords}

RECURSIVE pack_all(_)
pack_all(recs) ==
    IF recs = <<>> THEN <<>>
    ELSE make_event(Head(recs).evt_type,
                    [lo |-> Head(recs).ts.lo, hi |-> Head(recs).ts.hi, ovf |-> 0],
                    Head(recs).arg1, Head(recs).arg2, Head(recs).arg3, Head(recs).arg4)
             \o pack_all(Tail(recs))

\* sock.recvfrom(bufsize) of a datagram: what exceeds bufsize is dropped.
RECV_BUFSIZE == 256
recvfrom(bytes, bufsize) == SubSeq(bytes, 1, Min(Len(bytes), bufsize))

\* What the receive path gets of a buffer: the datagram socket reads at most
\* RECV_BUFSIZE bytes, the data channel hands over the whole message.
Received(bytes) ==
    IF deployment = "input_server" THEN recvfrom(bytes, RECV_BUFSIZE) ELSE bytes

\* A buffer arrives: `bytes`, in which the sender encoded the records `recs`.
WireArrives(recs, bytes) ==
    /\ sent' = recs
    /\ wire' = Received(bytes)
    /\ offset' = 0
    /\ decoded' = <<>>
    \* if len(data) < EVENT_SIZE: continue / return
    /\ wire_phase' = (IF Len(Received(bytes)) < EVENT_SIZE THEN "done" ELSE "decoding")
    /\ NoDeviceOp("recv")
    /\ UNCHANGED <<deployment, proc, injVars, srvVars,
                   trace, dev_log, hold_phase, hold_n, n_press, n_release, dgVars>>

\* One record from receiver.make_event, any field values.
recv_make_event ==
    /\ proc = "running"
    /\ wire_phase = "idle"
    /\ UNCHANGED <<relayVars, twinVars, stepVars, lateVars>>
    /\ \E k \in CodecKinds, now \in CodecClocks, a1 \in CodecArg1s,
       a2 \in CodecArg2s, a3 \in CodecArg3s, a4 \in CodecArg4s :
        WireArrives(<<WireEvent(k, now, a1, a2, a3, a4)>>,
                    make_event(k, now, a1, a2, a3, a4))

\* One record from the WebRTC page's mkEvt.
recv_mkEvt ==
    /\ proc = "running"
    /\ wire_phase = "idle"
    /\ UNCHANGED <<relayVars, twinVars, stepVars, lateVars>>
    /\ \E k \in CodecKinds, now \in CodecClocks, x \in CodecArg1s,
       y \in CodecArg2s, slot \in CodecArg3s :
        WireArrives(<<WireEvent(k, now, x, y, slot, 0)>>, mkEvt(k, now, x, y, slot))

\* One record from the relay page's mkEvt.
recv_web_mkEvt ==
    /\ proc = "running"
    /\ wire_phase = "idle"
    /\ UNCHANGED <<relayVars, twinVars, stepVars, lateVars>>
    /\ \E k \in CodecKinds, now \in CodecClocks, x \in CodecArg1s, y \in CodecArg2s :
        WireArrives(<<WireEvent(k, now, x, y, 0, 0)>>, web_mkEvt(k, now, x, y))

\* Any number of records, followed by fewer than EVENT_SIZE stray bytes.
recv_records_and_tail ==
    /\ proc = "running"
    /\ wire_phase = "idle"
    /\ UNCHANGED <<relayVars, twinVars, stepVars, lateVars>>
    /\ \E now \in WireClocks :
        \E recs \in WireBuffers(now), n \in 0..(EVENT_SIZE - 1), b \in {0, 255} :
            WireArrives(recs, pack_all(recs) \o [i \in 1..n |-> b])

\* One turn of the unpack loop: unpack_from, advance, handle_event.
unpack_record ==
    /\ wire_phase = "decoding"
    /\ more_records(offset, Len(wire))
    /\ LET r == struct_unpack_from(wire, offset)
       IN  /\ decoded' = Append(decoded, r)
           /\ offset' = offset + EVENT_SIZE
           /\ IF r = StructError
              THEN /\ NoDeviceOp("struct_error")
                   /\ UNCHANGED injVars
                   /\ wire_phase' = "done"
              ELSE /\ ApplyEventOk(Args(r))
                   /\ UNCHANGED <<input_injector, dev_open>>
                   /\ wire_phase' = (IF more_records(offset + EVENT_SIZE, Len(wire))
                                     THEN "decoding" ELSE "done")
    /\ UNCHANGED <<deployment, proc, srvVars, sent, wire,
                   trace, dev_log, hold_phase, hold_n, n_press, n_release, dgVars,
                   relayVars, twinVars, stepVars, lateVars>>

WireNext ==
    \/ recv_make_event
    \/ recv_mkEvt
    \/ recv_web_mkEvt
    \/ recv_records_and_tail
    \/ unpack_record

SpecWire == ServingInit /\ [][WireNext]_vars

\* ------------------------------------------------------- message relay
\* web_receiver relays the browser's frames to the input port of the sender
\* host, where input_server receives them as datagrams.
MaxFrames == 2

\* The records of a frame: touch moves on slot 0, numbered by x.
FrameRecord(i) == WireEvent(EVT_MOUSE_MOVE, [lo |-> i, hi |-> 0, ovf |-> 0], i, 200, 0, 0)
FrameRecords(n) == [i \in 1..n |-> FrameRecord(i)]

\* Frames a client can send: text or binary, of 0, 1, 2 or about twenty
\* records, with or without a few bytes after the last whole record.
Frames ==
    {[binary |-> b, recs |-> FrameRecords(n),
      bytes |-> pack_all(FrameRecords(n)) \o [i \in 1..t |-> 0]] :
         b \in BOOLEAN, n \in {0, 1, 2, 19, 20, 21}, t \in {0, 5, 12}}

\* Forwarding without the length test.
relay_forwards_any_binary(f, addr) == f.binary /\ addr # "None"

\* isinstance(msg, bytes) and self.sender_addr and len(msg) >= EVENT_SIZE
relay_forwards(f, addr) ==
    f.binary /\ addr # "None" /\ Len(f.bytes) >= EVENT_SIZE

\* StreamServer.__init__: sender_addr is set iff --sender-host was given.
relay_start ==
    /\ deployment = "input_server"
    /\ relay_phase = "off"
    /\ relay_phase' = "serving"
    /\ sender_addr' \in {"None", "addr"}
    /\ UNCHANGED <<frame, sendto_called, udp, n_frames>>
    /\ UNCHANGED <<deployment, proc, injVars, srvVars, opVars, wireVars, twinVars, stepVars, lateVars,
                   trace, dev_log, hold_phase, hold_n, n_press, n_release, dgVars>>

\* ws_handler is entered for a browser and reaches its receive loop.
relay_ws_handler ==
    /\ relay_phase = "serving"
    /\ relay_phase' = "open"
    /\ UNCHANGED <<sender_addr, frame, sendto_called, udp, n_frames>>
    /\ UNCHANGED <<deployment, proc, injVars, srvVars, opVars, wireVars, twinVars, stepVars, lateVars,
                   trace, dev_log, hold_phase, hold_n, n_press, n_release, dgVars>>

\* One frame of the receive loop: forwarded whole as one datagram, or skipped.
relay_message ==
    /\ relay_phase = "open"
    /\ n_frames < MaxFrames
    /\ udp = <<>>
    /\ wire_phase \in {"idle", "done"}
    /\ \E f \in Frames :
          /\ frame' = f
          /\ sendto_called' = relay_forwards(f, sender_addr)
          /\ udp' = (IF relay_forwards(f, sender_addr) THEN <<[recs |-> f.recs, bytes |-> f.bytes]>>
                     ELSE <<>>)
    /\ n_frames' = n_frames + 1
    /\ UNCHANGED <<relay_phase, sender_addr>>
    /\ UNCHANGED <<deployment, proc, injVars, srvVars, opVars, wireVars, twinVars, stepVars, lateVars,
                   trace, dev_log, hold_phase, hold_n, n_press, n_release, dgVars>>

\* One frame of the receive loop whose sendto raises OSError: only
\* ConnectionClosed is caught, so the handler ends through its finally clause.
relay_message_sendto_error ==
    /\ relay_phase = "open"
    /\ n_frames < MaxFrames
    /\ udp = <<>>
    /\ wire_phase \in {"idle", "done"}
    /\ \E f \in Frames :
          /\ relay_forwards(f, sender_addr)
          /\ frame' = f
    /\ sendto_called' = TRUE
    /\ relay_phase' = "serving"
    /\ n_frames' = n_frames + 1
    /\ UNCHANGED <<sender_addr, udp>>
    /\ UNCHANGED <<deployment, proc, injVars, srvVars, opVars, wireVars, twinVars, stepVars, lateVars,
                   trace, dev_log, hold_phase, hold_n, n_press, n_release, dgVars>>

\* The browser goes away: ConnectionClosed ends the loop.
relay_connection_closed ==
    /\ relay_phase = "open"
    /\ relay_phase' = "serving"
    /\ frame' = NoFrame
    /\ sendto_called' = FALSE
    /\ UNCHANGED <<sender_addr, udp, n_frames>>
    /\ UNCHANGED <<deployment, proc, injVars, srvVars, opVars, wireVars, twinVars, stepVars, lateVars,
                   trace, dev_log, hold_phase, hold_n, n_press, n_release, dgVars>>

\* input_server receives the relayed datagram.
relay_recvfrom ==
    /\ proc = "running"
    /\ deployment = "input_server"
    /\ udp # <<>>
    /\ wire_phase \in {"idle", "done"}
    /\ WireArrives(Head(udp).recs, Head(udp).bytes)
    /\ udp' = Tail(udp)
    /\ UNCHANGED <<relay_phase, sender_addr, frame, sendto_called, n_frames, twinVars, stepVars, lateVars>>

RelayNext ==
    \/ relay_start
    \/ relay_ws_handler
    \/ relay_message
    \/ relay_message_sendto_error
    \/ relay_connection_closed
    \/ relay_recvfrom
    \/ unpack_record

SpecRelay == ServingInit /\ [][RelayNext]_vars

\* --------------------------------------------------------- paired runs
\* Two injectors of the same program are fed record streams that agree in
\* kind, arg1, arg2 and arg3; the first has one timestamp and arg4 = 0
\* throughout, the second is free in both.  Each record goes through
\* make_event, unpack_from and handle_event.
MaxTwin == 3
TwinKinds == {EVT_MOUSE_MOVE, EVT_MOUSE_DOWN, EVT_MOUSE_UP}
TwinSlots == {0, 1}
TwinArg4s == {0, 7}

\* The record the receive path unpacks from a make_event buffer.
Unpacked(k, now, a1, a2, a3, a4) ==
    struct_unpack_from(make_event(k, now, a1, a2, a3, a4), 0)

twin_handle_event ==
    /\ proc = "running"
    /\ Len(trace) < MaxTwin
    /\ \E k \in TwinKinds, a3 \in TwinSlots, now2 \in WireClocks, b4 \in TwinArg4s :
          LET r1 == Unpacked(k, [lo |-> 513, hi |-> 1, ovf |-> 0], 100, 200, a3, 0)
              r2 == Unpacked(k, now2, 100, 200, a3, b4)
          IN  /\ ApplyEventOk(Args(r1))
              /\ trace' = Append(trace, Args(r1))
              /\ dev_log' = dev_log \o Writes(Args(r1), active_slots)
              /\ twin_slots' = (IF Raises(Args(r2), twin_slots) THEN twin_slots
                                ELSE Slots(Args(r2), twin_slots))
              /\ twin_btn' = ButtonAfter(twin_btn, Writes(Args(r2), twin_slots))
              /\ twin_log' = twin_log \o Writes(Args(r2), twin_slots)
              /\ twin_diff' = (twin_diff \/ r1.ts # r2.ts \/ r1.arg4 # r2.arg4)
    /\ UNCHANGED <<deployment, proc, input_injector, dev_open, srvVars,
                   hold_phase, hold_n, n_press, n_release, dgVars, wireVars, relayVars,
                   stepVars, lateVars>>

TwinNext ==
    \/ twin_handle_event

SpecTwin == ServingInit /\ [][TwinNext]_vars

\* ------------------------------------------------------ write by write
\* handle_event one dev.write at a time, with the threads that call it and
\* the handlers that can run in between.
MaxCalls == 3
StepEvents ==
    [evt_type : {EVT_MOUSE_DOWN, EVT_MOUSE_UP}, arg1 : {100}, arg2 : {200},
     arg3 : {0, 1}, arg4 : {0}]
        \cup [evt_type : {EVT_MOUSE_MOVE}, arg1 : {100}, arg2 : {200}, arg3 : {0}, arg4 : {0}]

\* Callbacks handed to a second thread as well.
CallbackThreads_with_worker == {"glib", "worker"}

\* The stream's one data channel delivers its messages one after the other,
\* from the context that _glib_pump iterates.
CallbackThreads == {"glib"}

\* The threads that call handle_event: main's receive loop, or the threads
\* that run _on_data_channel_message.
Callers == IF deployment = "input_server" THEN {"main"} ELSE CallbackThreads

InCall == {t \in Threads : calls[t] # NoCall}

StepUnchanged ==
    UNCHANGED <<deployment, input_injector, opVars, wireVars, relayVars, twinVars, lateVars,
                trace, dev_log, hold_phase, hold_n, n_press, n_release, dgVars>>

\* A caller unpacks a record and enters handle_event: the slot set is updated.
call_handle_event ==
    /\ proc = "running"
    /\ dev_open
    /\ n_calls < MaxCalls
    /\ (deployment = "webrtc_stream") => (stream = "started")
    /\ \E t \in Callers, e \in StepEvents :
          /\ calls[t] = NoCall
          /\ calls' = [calls EXCEPT ![t] =
                          [id |-> n_calls + 1, todo |-> Writes(e, active_slots)]]
          /\ active_slots' = (IF Raises(e, active_slots) THEN active_slots
                              ELSE Slots(e, active_slots))
    /\ n_calls' = n_calls + 1
    /\ UNCHANGED <<proc, dev_open, dev_btn_touch, srvVars, write_owner>>
    /\ StepUnchanged

\* The next dev.write of an execution in progress.
call_write ==
    /\ proc = "running"
    /\ \E t \in InCall :
          /\ calls[t].todo # <<>>
          /\ write_owner' = Append(write_owner, calls[t].id)
          /\ dev_btn_touch' = ButtonAfter(dev_btn_touch, <<Head(calls[t].todo)>>)
          /\ calls' = [calls EXCEPT ![t].todo = Tail(@)]
    /\ UNCHANGED <<proc, dev_open, active_slots, srvVars, n_calls>>
    /\ StepUnchanged

\* The next dev.write raises: the except clause around handle_event logs it
\* and the execution is over.
call_write_error ==
    /\ proc = "running"
    /\ \E t \in InCall :
          /\ calls[t].todo # <<>>
          /\ calls' = [calls EXCEPT ![t] = NoCall]
    /\ UNCHANGED <<proc, dev_open, active_slots, dev_btn_touch, srvVars, n_calls, write_owner>>
    /\ StepUnchanged

\* handle_event returns after its last write.
call_return ==
    /\ proc = "running"
    /\ \E t \in InCall :
          /\ calls[t].todo = <<>>
          /\ calls' = [calls EXCEPT ![t] = NoCall]
    /\ UNCHANGED <<proc, dev_open, active_slots, dev_btn_touch, srvVars, n_calls, write_owner>>
    /\ StepUnchanged

\* The viewer goes away: _ws_handler's finally clause stops the stream.
\* pipeline.set_state(NULL) returns once the pipeline's callbacks are over.
step_session_stop ==
    /\ proc = "running"
    /\ deployment = "webrtc_stream"
    /\ stream = "started"
    /\ InCall = {}
    /\ stream' = "None"
    /\ viewer_ws' = "None"
    /\ UNCHANGED <<proc, dev_open, active_slots, dev_btn_touch, stepVars>>
    /\ StepUnchanged

\* The next viewer: _ws_handler starts a new stream with the same injector.
step_session_start ==
    /\ proc = "running"
    /\ deployment = "webrtc_stream"
    /\ stream = "None"
    /\ stream' = "started"
    /\ viewer_ws' = "ws"
    /\ UNCHANGED <<proc, dev_open, active_slots, dev_btn_touch, stepVars>>
    /\ StepUnchanged

\* SIGINT/SIGTERM at any point, also between two writes of handle_event:
\* the handler closes the device and the process exits.
step_on_signal ==
    /\ proc = "running"
    /\ proc' = "exited"
    /\ dev_open' = FALSE
    /\ stream' = "None"
    /\ viewer_ws' = "None"
    /\ UNCHANGED <<active_slots, dev_btn_touch, stepVars>>
    /\ StepUnchanged

StepNext ==
    \/ call_handle_event
    \/ call_write
    \/ call_write_error
    \/ call_return
    \/ step_session_stop
    \/ step_session_start
    \/ step_on_signal

SpecStep == ServingInit /\ [][StepNext]_vars

\* ----------------------------------------------------------- side by side
\* input_server.handle_event and InputInjector.handle_event fed the same
\* events, each from its own all-inactive slot set, each with its own device.
MaxEquiv == 3
EquivEvents ==
    [evt_type : EvtTypes \cup {9}, arg1 : {100}, arg2 : {200},
     arg3 : {-1, 9, 10}, arg4 : {0}]

equiv_handle_event ==
    /\ proc = "running"
    /\ deployment = "input_server"
    /\ Len(trace) < MaxEquiv
    /\ \E e \in EquivEvents :
          LET ws == InputInjector_handle_event_writes(e.evt_type, e.arg1, e.arg2,
                                                      e.arg3, e.arg4, twin_slots)
          IN  /\ ApplyEventOk(e)
              /\ trace' = Append(trace, e)
              /\ dev_log' = dev_log \o Writes(e, active_slots)
              /\ twin_slots' = InputInjector_handle_event_slots(e.evt_type, e.arg3, twin_slots)
              /\ twin_btn' = ButtonAfter(twin_btn, ws)
              /\ twin_log' = twin_log \o ws
    /\ UNCHANGED <<deployment, proc, input_injector, dev_open, srvVars, twin_diff,
                   hold_phase, hold_n, n_press, n_release, dgVars, wireVars, relayVars,
                   stepVars, lateVars>>

EquivNext ==
    \/ equiv_handle_event

EquivInit == ServingInit /\ deployment = "input_server"

SpecEquiv == EquivInit /\ [][EquivNext]_vars

\* ---------------------------------------------------------- legacy senders
\* receiver.py's two pygame event loops and the web_receiver page, from the
\* input events they are handed to the records the host unpacks.
MaxInputs == 4
K_a == 97
K_UNKNOWN == 0

\* An input event: a pygame event or a DOM event of the page.
InputEvent(type, button, rel, key) ==
    [type |-> type, button |-> button, rel |-> rel, key |-> key]

\* receiver.py: the pygame window and a pointer position in it.
WindowSize == <<640, 360>>
EventPos == <<100, 200>>
MouseButtons == {1, 3}

\* The page: the video element's box (the stream's aspect ratio, at the
\* window's origin), a client position, and the DOM button numbers.
VideoRect == <<640, 360>>
ClientXY == <<100, 200>>
DomButtons == {0, 2}
MaxFingers == 2

SenderClock == [lo |-> 513, hi |-> 1, ovf |-> 0]

map_mouse_coords(pos, window_size) ==
    LET sx == (pos[1] * STREAM_WIDTH) \div window_size[1]
        sy == (pos[2] * STREAM_HEIGHT) \div window_size[2]
    IN  <<Max(0, Min(STREAM_WIDTH - 1, sx)), Max(0, Min(STREAM_HEIGHT - 1, sy))>>

\* build_keymap for the keys the scenario presses; keymap.get(key, 0).
keymap_get(key) == IF key = K_a THEN KEY_A ELSE 0

\* mapXY for a box whose letterbox offsets are 0; Math.round is floor(x + 1/2).
mapXY(cx, cy) ==
    LET rw == VideoRect[1]
        sx == (2 * cx * STREAM_WIDTH + rw) \div (2 * rw)
        sy == (2 * cy * STREAM_WIDTH + rw) \div (2 * rw)
    IN  <<Max(0, Min(STREAM_WIDTH - 1, sx)), Max(0, Min(STREAM_HEIGHT - 1, sy))>>

\* What the host unpacks from a packet of make_event / of the page's mkEvt.
HostUnpacks(bytes) == Args(struct_unpack_from(bytes, 0))

\* The packets input_sender_loop sends for one event (none: <<>>).
input_sender_loop_packets(event) ==
    LET s == map_mouse_coords(EventPos, WindowSize)
    IN  IF event.type \in {"QUIT", "VIDEORESIZE"} \/ udp_dest = "None" THEN <<>>
        ELSE IF event.type = "MOUSEMOTION"
        THEN <<make_event(EVT_MOUSE_MOVE, SenderClock, s[1], s[2], event.rel[1], event.rel[2])>>
        ELSE IF event.type = "MOUSEBUTTONDOWN"
        THEN <<make_event(EVT_MOUSE_DOWN, SenderClock, s[1], s[2], event.button, 0)>>
        ELSE IF event.type = "MOUSEBUTTONUP"
        THEN <<make_event(EVT_MOUSE_UP, SenderClock, s[1], s[2], event.button, 0)>>
        ELSE IF event.type = "KEYDOWN" /\ keymap_get(event.key) # 0
        THEN <<make_event(EVT_KEY_DOWN, SenderClock, keymap_get(event.key), 0, 0, 0)>>
        ELSE IF event.type = "KEYUP" /\ keymap_get(event.key) # 0
        THEN <<make_event(EVT_KEY_UP, SenderClock, keymap_get(event.key), 0, 0, 0)>>
        ELSE <<>>

\* The packets receive_and_decode sends for one event, given its touching flag.
receive_and_decode_packets(event, flag) ==
    LET s == map_mouse_coords(EventPos, WindowSize)
    IN  IF event.type \in {"QUIT", "VIDEORESIZE"} \/ udp_dest = "None" THEN <<>>
        ELSE IF event.type = "MOUSEMOTION"
        THEN IF flag THEN <<make_event(EVT_MOUSE_MOVE, SenderClock, s[1], s[2], 0, 0)>>
             ELSE <<>>
        ELSE IF event.type = "MOUSEBUTTONDOWN" /\ event.button = 1
        THEN <<make_event(EVT_MOUSE_DOWN, SenderClock, s[1], s[2], 0, 0)>>
        ELSE IF event.type = "MOUSEBUTTONUP" /\ event.button = 1
        THEN <<make_event(EVT_MOUSE_UP, SenderClock, s[1], s[2], 0, 0)>>
        ELSE IF event.type = "KEYDOWN" /\ keymap_get(event.key) # 0
        THEN <<make_event(EVT_KEY_DOWN, SenderClock, keymap_get(event.key), 0, 0, 0)>>
        ELSE IF event.type = "KEYUP" /\ keymap_get(event.key) # 0
        THEN <<make_event(EVT_KEY_UP, SenderClock, keymap_get(event.key), 0, 0, 0)>>
        ELSE <<>>

\* receive_and_decode's touching flag after one event.
receive_and_decode_touching(event, flag) ==
    IF event.type \in {"QUIT", "VIDEORESIZE"} \/ udp_dest = "None" THEN flag
    ELSE IF event.type = "MOUSEBUTTONDOWN" /\ event.button = 1 THEN TRUE
    ELSE IF event.type = "MOUSEBUTTONUP" /\ event.button = 1 THEN FALSE
    ELSE flag

\* The events the window system can queue next: a button goes down only when
\* it is up, and up only when it is down.
PygameEvents ==
    {InputEvent("MOUSEMOTION", 0, <<5, -3>>, 0), InputEvent("QUIT", 0, <<0, 0>>, 0),
     InputEvent("VIDEORESIZE", 0, <<0, 0>>, 0), InputEvent("KEYDOWN", 0, <<0, 0>>, K_a),
     InputEvent("KEYUP", 0, <<0, 0>>, K_a), InputEvent("KEYDOWN", 0, <<0, 0>>, K_UNKNOWN)}
        \cup {InputEvent("MOUSEBUTTONDOWN", b, <<0, 0>>, 0) : b \in MouseButtons \ pressed}
        \cup {InputEvent("MOUSEBUTTONUP", b, <<0, 0>>, 0) : b \in pressed}

PressedAfter(event) ==
    IF event.type \in {"MOUSEBUTTONDOWN", "mousedown"} THEN pressed \cup {event.button}
    ELSE IF event.type \in {"MOUSEBUTTONUP", "mouseup"} THEN pressed \ {event.button}
    ELSE pressed

SenderUnchanged ==
    UNCHANGED <<deployment, proc, injVars, srvVars, opVars, trace, dev_log, hold_phase, hold_n,
                n_press, n_release, dgVars, wireVars, relayVars, twinVars, stepVars,
                viewerVars, clientVars, bcastVars>>

\* receiver.py main(): arguments parsed, pygame initialised, listening.
receiver_main ==
    /\ sender = "off"
    /\ sender' = "receive_and_decode"
    /\ udp_dest' \in {"None", "addr"}
    /\ sender_phase' = "accept"
    /\ UNCHANGED <<running_event, pressed, fingers, pg_queue, pg_batch, touching, page_ws_open,
                   sender_sent, sender_cause, n_inputs>>
    /\ SenderUnchanged

\* input_sender_loop called with a set running_event (receiver.py itself has
\* no call of it).
input_sender_loop_called ==
    /\ sender = "off"
    /\ sender' = "input_sender_loop"
    /\ udp_dest' \in {"None", "addr"}
    /\ sender_phase' = "loop"
    /\ running_event' = TRUE
    /\ UNCHANGED <<pressed, fingers, pg_queue, pg_batch, touching, page_ws_open,
                   sender_sent, sender_cause, n_inputs>>
    /\ SenderUnchanged

\* main() accepts a sender and calls receive_and_decode: touching = False.
main_calls_receive_and_decode ==
    /\ sender = "receive_and_decode"
    /\ sender_phase = "accept"
    /\ sender_phase' = "loop"
    /\ running_event' = TRUE
    /\ touching' = FALSE
    /\ UNCHANGED <<sender, udp_dest, pressed, fingers, pg_queue, pg_batch, page_ws_open,
                   sender_sent, sender_cause, n_inputs>>
    /\ SenderUnchanged

\* The window system queues an event, whatever the program is doing.
pygame_event_queued ==
    /\ sender \in {"receive_and_decode", "input_sender_loop"}
    /\ n_inputs < MaxInputs
    /\ \E event \in PygameEvents :
          /\ pg_queue' = Append(pg_queue, event)
          /\ pressed' = PressedAfter(event)
    /\ n_inputs' = n_inputs + 1
    /\ UNCHANGED <<sender, udp_dest, sender_phase, running_event, fingers, pg_batch, touching,
                   page_ws_open, sender_sent, sender_cause>>
    /\ SenderUnchanged

\* while running_event.is_set(): for event in pygame.event.get():
pygame_event_get ==
    /\ sender \in {"receive_and_decode", "input_sender_loop"}
    /\ sender_phase = "loop"
    /\ running_event
    /\ pg_batch = <<>>
    /\ pg_queue # <<>>
    /\ pg_batch' = pg_queue
    /\ pg_queue' = <<>>
    /\ UNCHANGED <<sender, udp_dest, sender_phase, running_event, pressed, fingers, touching,
                   page_ws_open, sender_sent, sender_cause, n_inputs>>
    /\ SenderUnchanged

\* One pass of a loop's for body. QUIT clears running_event and leaves the
\* for loop: the events behind it in the list are not looked at.
SenderLoopBody(packets) ==
    LET event == Head(pg_batch)
    IN  /\ sender_phase = "loop"
        /\ pg_batch # <<>>
        /\ running_event' = (IF event.type = "QUIT" THEN FALSE ELSE running_event)
        /\ pg_batch' = (IF event.type = "QUIT" THEN <<>> ELSE Tail(pg_batch))
        /\ sender_sent' = sender_sent \o [i \in 1..Len(packets) |-> HostUnpacks(packets[i])]
        /\ sender_cause' = sender_cause \o [i \in 1..Len(packets) |-> event]
        /\ UNCHANGED <<sender, udp_dest, sender_phase, pressed, fingers, pg_queue, page_ws_open,
                       n_inputs>>
        /\ SenderUnchanged

receive_and_decode_event ==
    /\ sender = "receive_and_decode"
    /\ pg_batch # <<>>
    /\ SenderLoopBody(receive_and_decode_packets(Head(pg_batch), touching))
    /\ touching' = receive_and_decode_touching(Head(pg_batch), touching)

input_sender_loop_event ==
    /\ sender = "input_sender_loop"
    /\ pg_batch # <<>>
    /\ SenderLoopBody(input_sender_loop_packets(Head(pg_batch)))
    /\ UNCHANGED touching

\* tcp_reader: the sender disconnected, or a pipe broke.
tcp_reader_clears_running ==
    /\ sender = "receive_and_decode"
    /\ sender_phase = "loop"
    /\ running_event
    /\ running_event' = FALSE
    /\ UNCHANGED <<sender, udp_dest, sender_phase, pressed, fingers, pg_queue, pg_batch, touching,
                   page_ws_open, sender_sent, sender_cause, n_inputs>>
    /\ SenderUnchanged

\* The loop ends once running_event is clear and the for loop is over;
\* main() of receiver.py goes back to srv.accept().
sender_loop_returns ==
    /\ sender \in {"receive_and_decode", "input_sender_loop"}
    /\ sender_phase = "loop"
    /\ ~running_event
    /\ pg_batch = <<>>
    /\ sender_phase' = (IF sender = "receive_and_decode" THEN "accept" ELSE "returned")
    /\ UNCHANGED <<sender, udp_dest, running_event, pressed, fingers, pg_queue, pg_batch, touching,
                   page_ws_open, sender_sent, sender_cause, n_inputs>>
    /\ SenderUnchanged

\* The web_receiver page is loaded: connect() is under way.
page_load ==
    /\ sender = "off"
    /\ sender' = "page"
    /\ UNCHANGED <<udp_dest, sender_phase, running_event, pressed, fingers, pg_queue, pg_batch,
                   touching, page_ws_open, sender_sent, sender_cause, n_inputs>>
    /\ SenderUnchanged

page_ws_onopen ==
    /\ sender = "page"
    /\ ~page_ws_open
    /\ page_ws_open' = TRUE
    /\ UNCHANGED <<sender, udp_dest, sender_phase, running_event, pressed, fingers, pg_queue,
                   pg_batch, touching, sender_sent, sender_cause, n_inputs>>
    /\ SenderUnchanged

page_ws_onclose ==
    /\ sender = "page"
    /\ page_ws_open
    /\ page_ws_open' = FALSE
    /\ UNCHANGED <<sender, udp_dest, sender_phase, running_event, pressed, fingers, pg_queue,
                   pg_batch, touching, sender_sent, sender_cause, n_inputs>>
    /\ SenderUnchanged

\* A handler of the page: the flag it leaves, and send(mkEvt(type, x, y)) if
\* sends holds; send() drops the packet unless the socket is open.
PageHandler(event, flag, sends, type) ==
    LET xy == mapXY(ClientXY[1], ClientXY[2])
        out == IF sends /\ page_ws_open THEN <<web_mkEvt(type, SenderClock, xy[1], xy[2])>>
               ELSE <<>>
    IN  /\ sender = "page"
        /\ n_inputs < MaxInputs
        /\ n_inputs' = n_inputs + 1
        /\ touching' = flag
        /\ pressed' = PressedAfter(event)
        /\ sender_sent' = sender_sent \o [i \in 1..Len(out) |-> HostUnpacks(out[i])]
        /\ sender_cause' = sender_cause \o [i \in 1..Len(out) |-> event]
        /\ UNCHANGED <<sender, udp_dest, sender_phase, running_event, pg_queue, pg_batch,
                       page_ws_open>>
        /\ SenderUnchanged

page_touchstart ==
    /\ fingers < MaxFingers
    /\ fingers' = fingers + 1
    /\ PageHandler(InputEvent("touchstart", 0, <<0, 0>>, 0), TRUE, TRUE, EVT_MOUSE_DOWN)

page_touchmove ==
    /\ fingers > 0
    /\ UNCHANGED fingers
    /\ PageHandler(InputEvent("touchmove", 0, <<0, 0>>, 0), touching, touching, EVT_MOUSE_MOVE)

page_touchend ==
    /\ fingers > 0
    /\ fingers' = fingers - 1
    /\ PageHandler(InputEvent("touchend", 0, <<0, 0>>, 0), FALSE, TRUE, EVT_MOUSE_UP)

page_touchcancel ==
    /\ fingers > 0
    /\ fingers' = fingers - 1
    /\ PageHandler(InputEvent("touchcancel", 0, <<0, 0>>, 0), FALSE, TRUE, EVT_MOUSE_UP)

page_mousedown ==
    /\ UNCHANGED fingers
    /\ \E b \in DomButtons \ pressed :
          PageHandler(InputEvent("mousedown", b, <<0, 0>>, 0),
                      IF b # 0 THEN touching ELSE TRUE, b = 0, EVT_MOUSE_DOWN)

page_mousemove ==
    /\ UNCHANGED fingers
    /\ PageHandler(InputEvent("mousemove", 0, <<0, 0>>, 0), touching, touching, EVT_MOUSE_MOVE)

page_mouseup ==
    /\ UNCHANGED fingers
    /\ \E b \in pressed :
          PageHandler(InputEvent("mouseup", b, <<0, 0>>, 0),
                      IF b # 0 THEN touching ELSE FALSE, b = 0, EVT_MOUSE_UP)

SenderNext ==
    \/ receiver_main
    \/ input_sender_loop_called
    \/ main_calls_receive_and_decode
    \/ pygame_event_queued
    \/ pygame_event_get
    \/ receive_and_decode_event
    \/ input_sender_loop_event
    \/ tcp_reader_clears_running
    \/ sender_loop_returns
    \/ page_load
    \/ page_ws_onopen
    \/ page_ws_onclose
    \/ page_touchstart
    \/ page_touchmove
    \/ page_touchend
    \/ page_touchcancel
    \/ page_mousedown
    \/ page_mousemove
    \/ page_mouseup

SenderInit == ServingInit /\ deployment = "input_server"
SpecSender == SenderInit /\ [][SenderNext]_vars

\* ------------------------------------------------------ viewer sessions
\* StreamServer._ws_handler as a coroutine per connection: a step runs one
\* handler from one await to its next.

\* The test at the head of _ws_handler, with every connection let through.
ws_handler_rejects_never(v) == FALSE

\* if self.viewer_ws is not None: reject.
ws_handler_rejects(v) == v # "None"

InLoop == {c \in Conns : ws_pc[c] = "loop"}

ViewerUnchanged ==
    UNCHANGED <<deployment, proc, injVars, opVars, trace, dev_log, hold_phase, hold_n,
                n_press, n_release, dgVars, wireVars, relayVars, twinVars, stepVars,
                senderVars, clientVars, bcastVars>>

\* A connection's handler starts on a busy server: up to await close(1013).
ws_handler_busy ==
    /\ proc = "running"
    /\ \E c \in Conns :
          /\ ws_pc[c] = "pending"
          /\ ws_handler_rejects(viewer_ws)
          /\ ws_pc' = [ws_pc EXCEPT ![c] = "close_1013"]
    /\ UNCHANGED <<srvVars, close_code, pipeline_starts, remote_description>>
    /\ ViewerUnchanged

\* A connection's handler starts on an idle server and stream.start
\* succeeds: up to the first await of async for.
ws_handler_becomes_viewer ==
    /\ proc = "running"
    /\ \E c \in Conns :
          /\ ws_pc[c] = "pending"
          /\ ~ws_handler_rejects(viewer_ws)
          /\ viewer_ws' = c
          /\ stream' = c
          /\ pipeline_starts' = [pipeline_starts EXCEPT ![c] = @ + 1]
          /\ ws_pc' = [ws_pc EXCEPT ![c] = "loop"]
    /\ remote_description' = FALSE
    /\ UNCHANGED close_code
    /\ ViewerUnchanged

\* The same with stream.start raising: the except block stops and drops the
\* stream, clears viewer_ws, and runs up to await close(1011).
ws_handler_pipeline_failed ==
    /\ proc = "running"
    /\ \E c \in Conns :
          /\ ws_pc[c] = "pending"
          /\ ~ws_handler_rejects(viewer_ws)
          /\ viewer_ws' = "None"
          /\ stream' = "None"
          /\ pipeline_starts' = [pipeline_starts EXCEPT ![c] = @ + 1]
          /\ ws_pc' = [ws_pc EXCEPT ![c] = "close_1011"]
    /\ remote_description' = FALSE
    /\ UNCHANGED close_code
    /\ ViewerUnchanged

\* await websocket.close(code) is over and the handler returns.
ws_handler_closed ==
    /\ proc = "running"
    /\ \E c \in Conns :
          /\ ws_pc[c] \in {"close_1013", "close_1011"}
          /\ close_code' = [close_code EXCEPT ![c] =
                               IF ws_pc[c] = "close_1013" THEN 1013 ELSE 1011]
          /\ ws_pc' = [ws_pc EXCEPT ![c] = "returned"]
    /\ UNCHANGED <<srvVars, pipeline_starts, remote_description>>
    /\ ViewerUnchanged

\* async for hands the viewer's handler a message: an answer goes to the
\* stream, an ICE candidate and anything else leave the server as it is.
ws_handler_message ==
    /\ proc = "running"
    /\ \E c \in Conns, type \in {"answer", "ice", "other"} :
          /\ ws_pc[c] = "loop"
          /\ remote_description' =
                (IF type = "answer" /\ stream # "None" THEN TRUE ELSE remote_description)
    /\ UNCHANGED <<srvVars, ws_pc, close_code, pipeline_starts>>
    /\ ViewerUnchanged

\* The viewer's connection closes, or handling a message raises: the finally
\* block stops and drops the stream and clears viewer_ws.
ws_handler_finally ==
    /\ proc = "running"
    /\ \E c \in Conns :
          /\ ws_pc[c] = "loop"
          /\ ws_pc' = [ws_pc EXCEPT ![c] = "returned"]
    /\ stream' = "None"
    /\ viewer_ws' = "None"
    /\ remote_description' = FALSE
    /\ UNCHANGED <<close_code, pipeline_starts>>
    /\ ViewerUnchanged

ViewerNext ==
    \/ ws_handler_busy
    \/ ws_handler_becomes_viewer
    \/ ws_handler_pipeline_failed
    \/ ws_handler_closed
    \/ ws_handler_message
    \/ ws_handler_finally

ViewerInit == Init /\ deployment = "webrtc_stream"
SpecViewer == ViewerInit /\ [][ViewerNext]_vars

\* ---------------------------------------------------------- WebRTC page
\* The page's slot allocator, its touch and mouse handlers, its data channel
\* and signaling socket, and the host behind the channel.
MaxContacts == 2
MaxInFlight == 2

\* for(let i=0;i<MAX_SLOTS;i++) if(!slotUsed[i]) ... return i; return -1.
RECURSIVE allocScan(_, _)
allocScan(used, i) ==
    IF i >= MAX_SLOTS THEN -1
    ELSE IF ~used[i] THEN i
    ELSE allocScan(used, i + 1)

\* allocSlot's return value.
allocSlot(id) ==
    IF id \in DOMAIN idToSlot THEN idToSlot[id] ELSE allocScan(slotUsed, 0)

\* idToSlot and slotUsed after allocSlot(id).
allocSlot_idToSlot(id) ==
    IF id \in DOMAIN idToSlot \/ allocSlot(id) < 0 THEN idToSlot
    ELSE [x \in DOMAIN idToSlot \cup {id} |-> IF x = id THEN allocSlot(id) ELSE idToSlot[x]]

allocSlot_slotUsed(id) ==
    IF id \in DOMAIN idToSlot \/ allocSlot(id) < 0 THEN slotUsed
    ELSE [slotUsed EXCEPT ![allocSlot(id)] = TRUE]

\* idToSlot after freeSlot(id).
freeSlot_idToSlot(id) ==
    [x \in DOMAIN idToSlot \ {id} |-> idToSlot[x]]

\* freeSlot leaving the slot marked as taken.
freeSlot_slotUsed_kept(id) == slotUsed

\* slotUsed after freeSlot(id).
freeSlot_slotUsed(id) ==
    IF id \in DOMAIN idToSlot THEN [slotUsed EXCEPT ![idToSlot[id]] = FALSE] ELSE slotUsed

\* What the host will unpack from mkEvt(type, x, y, slot) at the pointer position.
MadeEvent(type, slot) ==
    LET xy == mapXY(ClientXY[1], ClientXY[2])
    IN  HostUnpacks(mkEvt(type, SenderClock, xy[1], xy[2], slot))

\* sendEvt for each event a handler made: sent if dc is set and open.
sendEvt(evts) ==
    IF dc = "open" THEN dc_queue \o evts ELSE dc_queue

ClientUnchanged ==
    UNCHANGED <<deployment, proc, injVars, srvVars, opVars, trace, dev_log, hold_phase, hold_n,
                n_press, n_release, dgVars, wireVars, relayVars, twinVars, stepVars,
                senderVars, viewerVars, bcastVars>>

\* The identifier of a new touch: identifiers are keys only, and a new touch
\* takes the lowest one no live touch has.
NewTouchId ==
    CHOOSE id \in 1..(MAX_SLOTS + 1) : id \notin live /\ \A j \in 1..(id - 1) : j \in live

\* touchstart for one changed touch: a new touch, or an identifier that has
\* a slot already.
touchstart(cap) ==
    /\ Len(dc_queue) < MaxInFlight
    /\ \E id \in (IF Cardinality(live) < cap THEN {NewTouchId} ELSE {})
                    \cup (live \cap DOMAIN idToSlot) :
          /\ live' = live \cup {id}
          /\ idToSlot' = allocSlot_idToSlot(id)
          /\ slotUsed' = allocSlot_slotUsed(id)
          /\ made' = (IF allocSlot(id) < 0 THEN <<>>
                      ELSE <<MadeEvent(EVT_MOUSE_DOWN, allocSlot(id))>>)
          /\ dc_queue' = sendEvt(made')
          /\ last_id' = id
    /\ last_handler' = "touchstart"
    /\ UNCHANGED <<mouseDown, dc, client_ws>>
    /\ ClientUnchanged

\* Up to eleven fingers on a page whose data channel is not there.
page_touchstart_many ==
    /\ dc = "null"
    /\ touchstart(MAX_SLOTS + 1)

\* Up to MaxContacts fingers.
page_touchstart_few == touchstart(MaxContacts)

webrtc_page_touchmove ==
    /\ Len(dc_queue) < MaxInFlight
    /\ \E id \in live :
          /\ made' = (IF id \in DOMAIN idToSlot
                      THEN <<MadeEvent(EVT_MOUSE_MOVE, idToSlot[id])>> ELSE <<>>)
          /\ dc_queue' = sendEvt(made')
          /\ last_id' = id
    /\ last_handler' = "touchmove"
    /\ UNCHANGED <<idToSlot, slotUsed, live, mouseDown, dc, client_ws>>
    /\ ClientUnchanged

\* touchend and touchcancel have the same body.
TouchOver(name) ==
    /\ Len(dc_queue) < MaxInFlight
    /\ \E id \in live :
          /\ live' = live \ {id}
          /\ made' = (IF id \in DOMAIN idToSlot
                      THEN <<MadeEvent(EVT_MOUSE_UP, idToSlot[id])>> ELSE <<>>)
          /\ dc_queue' = sendEvt(made')
          /\ idToSlot' = freeSlot_idToSlot(id)
          /\ slotUsed' = freeSlot_slotUsed(id)
          /\ last_id' = id
    /\ last_handler' = name
    /\ UNCHANGED <<mouseDown, dc, client_ws>>
    /\ ClientUnchanged

webrtc_page_touchend == TouchOver("touchend")

webrtc_page_touchcancel == TouchOver("touchcancel")

\* The mouse handlers, for the left button; the others return at once.
MouseHandler(name, flag, evts) ==
    /\ Len(dc_queue) < MaxInFlight
    /\ mouseDown' = flag
    /\ made' = evts
    /\ dc_queue' = sendEvt(evts)
    /\ last_handler' = name
    /\ last_id' = -1
    /\ UNCHANGED <<idToSlot, slotUsed, live, dc, client_ws>>
    /\ ClientUnchanged

webrtc_page_mousedown ==
    /\ ~mouseDown
    /\ MouseHandler("mousedown", TRUE, <<MadeEvent(EVT_MOUSE_DOWN, 0)>>)

webrtc_page_mousemove ==
    MouseHandler("mousemove", mouseDown,
                 IF mouseDown THEN <<MadeEvent(EVT_MOUSE_MOVE, 0)>> ELSE <<>>)

webrtc_page_mouseup ==
    /\ mouseDown
    /\ MouseHandler("mouseup", FALSE, <<MadeEvent(EVT_MOUSE_UP, 0)>>)

\* pc.ondatachannel: dc = ev.channel, taken here as open.
pc_ondatachannel ==
    /\ client_ws = "open"
    /\ dc # "open"
    /\ dc' = "open"
    /\ last_handler' = "ondatachannel"
    /\ UNCHANGED <<idToSlot, slotUsed, live, mouseDown, client_ws, dc_queue, made, last_id>>
    /\ ClientUnchanged

\* The channel closes under the page; its onclose handler has not run yet.
dc_closes ==
    /\ dc = "open"
    /\ dc' = "closed"
    /\ last_handler' = "dc_closes"
    /\ UNCHANGED <<idToSlot, slotUsed, live, mouseDown, client_ws, dc_queue, made, last_id>>
    /\ ClientUnchanged

\* dc.onclose: dc = null.
dc_onclose ==
    /\ dc = "closed"
    /\ dc' = "null"
    /\ last_handler' = "dc_onclose"
    /\ UNCHANGED <<idToSlot, slotUsed, live, mouseDown, client_ws, dc_queue, made, last_id>>
    /\ ClientUnchanged

\* ws.onclose: pc.close(), dc = null, every slot freed, reconnect in 2 s.
client_ws_onclose ==
    /\ client_ws = "open"
    /\ client_ws' = "retry"
    /\ dc' = "null"
    /\ idToSlot' = [id \in {} |-> 0]
    /\ slotUsed' = [i \in 0..(MAX_SLOTS - 1) |-> FALSE]
    /\ last_handler' = "ws_onclose"
    /\ UNCHANGED <<live, mouseDown, dc_queue, made, last_id>>
    /\ ClientUnchanged

\* setTimeout(connect, 2000) fires.
client_connect ==
    /\ client_ws = "retry"
    /\ client_ws' = "open"
    /\ last_handler' = "connect"
    /\ UNCHANGED <<idToSlot, slotUsed, live, mouseDown, dc, dc_queue, made, last_id>>
    /\ ClientUnchanged

\* The host's _on_data_channel_message for the oldest message in flight.
dc_deliver ==
    /\ dc_queue # <<>>
    /\ LET e == Head(dc_queue)
       IN  /\ active_slots' = InputInjector_handle_event_slots(e.evt_type, e.arg3, active_slots)
           /\ dev_btn_touch' = ButtonAfter(dev_btn_touch,
                  InputInjector_handle_event_writes(e.evt_type, e.arg1, e.arg2, e.arg3, e.arg4,
                                                    active_slots))
    /\ dc_queue' = Tail(dc_queue)
    /\ UNCHANGED <<deployment, proc, input_injector, dev_open, srvVars, opVars, trace, dev_log,
                   hold_phase, hold_n, n_press, n_release, dgVars, wireVars, relayVars, twinVars,
                   stepVars, senderVars, viewerVars, bcastVars>>
    /\ UNCHANGED <<idToSlot, slotUsed, live, mouseDown, dc, client_ws, made, last_handler,
                   last_id>>

AllocNext ==
    \/ page_touchstart_many
    \/ webrtc_page_touchmove
    \/ webrtc_page_touchend
    \/ webrtc_page_touchcancel

ClientNext ==
    \/ page_touchstart_few
    \/ webrtc_page_touchmove
    \/ webrtc_page_touchend
    \/ webrtc_page_touchcancel
    \/ webrtc_page_mousedown
    \/ webrtc_page_mousemove
    \/ webrtc_page_mouseup
    \/ pc_ondatachannel
    \/ dc_closes
    \/ dc_onclose
    \/ client_ws_onclose
    \/ client_connect
    \/ dc_deliver

ClientInit == ServingInit /\ deployment = "webrtc_stream"
SpecAlloc == ClientInit /\ [][AllocNext]_vars
SpecClient == ClientInit /\ [][ClientNext]_vars

\* ------------------------------------------------------------ broadcast
\* web_receiver: push() reading chunks and broadcasting them, with the
\* ws_handler coroutines of the browsers running at its awaits.  (What
\* ws_handler does with a frame is the relay scenario above.)
MaxChunks == 2

BcastUnchanged ==
    UNCHANGED <<deployment, proc, injVars, srvVars, opVars, trace, dev_log, hold_phase, hold_n,
                n_press, n_release, dgVars, wireVars, relayVars, twinVars, stepVars,
                senderVars, viewerVars, clientVars>>

\* The for statement of broadcast asks its set iterator for the next client.
\* The iterator raises RuntimeError when the set's size is not the size it
\* was made with; push() catches that outside its while loop.  At the end of
\* the loop the dead clients are removed and push() reads on.
BroadcastFor(cs, visited, deads) ==
    IF Cardinality(cs) # bc_used'
    THEN /\ push_pc' = "error"
         /\ bc_ws' = "None"
         /\ clients' = cs
    ELSE IF cs \ visited = {}
    THEN /\ push_pc' = "read"
         /\ bc_ws' = "None"
         /\ clients' = cs \ deads
    ELSE /\ push_pc' = "send"
         /\ bc_ws' \in cs \ visited
         /\ clients' = cs

\* tcp_handler: a sender connected, ffmpeg started, push() awaits its first read.
tcp_handler_starts ==
    /\ push_pc = "off"
    /\ push_pc' = "read"
    /\ init_segment' = FALSE
    /\ UNCHANGED <<clients, browser_pc, init_done, bc_used, bc_visited, bc_ws, dead, bc_whole,
                   n_chunks>>
    /\ BcastUnchanged

\* push(): a chunk that does not complete the init segment yet.
push_accumulates ==
    /\ push_pc = "read"
    /\ n_chunks < MaxChunks
    /\ ~init_done
    /\ n_chunks' = n_chunks + 1
    /\ UNCHANGED <<clients, browser_pc, init_segment, init_done, push_pc, bc_used, bc_visited,
                   bc_ws, dead, bc_whole>>
    /\ BcastUnchanged

\* push(): a chunk to broadcast (the first one sets init_segment); broadcast
\* runs up to its first await, or to its end if there is no client.
push_broadcasts ==
    /\ push_pc = "read"
    /\ n_chunks < MaxChunks
    /\ n_chunks' = n_chunks + 1
    /\ init_segment' = TRUE
    /\ init_done' = TRUE
    /\ dead' = {}
    /\ bc_used' = Cardinality(clients)
    /\ bc_visited' = {}
    /\ bc_whole' = clients
    /\ BroadcastFor(clients, {}, {})
    /\ UNCHANGED browser_pc
    /\ BcastUnchanged

\* push(): ffmpeg's output ended.
push_eof ==
    /\ push_pc = "read"
    /\ push_pc' = "eof"
    /\ UNCHANGED <<clients, browser_pc, init_segment, init_done, bc_used, bc_visited, bc_ws, dead,
                   bc_whole, n_chunks>>
    /\ BcastUnchanged

\* broadcast: the awaited ws.send returns or raises, and the loop goes on to
\* its next await.
broadcast_send_returns ==
    /\ push_pc = "send"
    /\ \E ok \in BOOLEAN :
          /\ dead' = (IF ok THEN dead ELSE dead \cup {bc_ws})
          /\ bc_visited' = bc_visited \cup {bc_ws}
          /\ UNCHANGED bc_used
          /\ BroadcastFor(clients, bc_visited', dead')
    /\ UNCHANGED <<browser_pc, init_segment, init_done, bc_whole, n_chunks>>
    /\ BcastUnchanged

\* ws_handler: a browser connects; with an init segment there, the handler
\* first awaits sending it, else it adds the socket and enters its loop.
browser_connects ==
    /\ push_pc # "off"
    /\ \E c \in Conns :
          /\ browser_pc[c] = "none"
          /\ browser_pc' = [browser_pc EXCEPT ![c] = IF init_segment THEN "init" ELSE "in"]
          /\ clients' = (IF init_segment THEN clients ELSE clients \cup {c})
    /\ UNCHANGED <<init_segment, init_done, push_pc, bc_used, bc_visited, bc_ws, dead, bc_whole,
                   n_chunks>>
    /\ BcastUnchanged

\* ws_handler: the init segment is sent (clients.add, loop), or the send
\* raised (return).
browser_init_sent ==
    /\ \E c \in Conns, ok \in BOOLEAN :
          /\ browser_pc[c] = "init"
          /\ browser_pc' = [browser_pc EXCEPT ![c] = IF ok THEN "in" ELSE "gone"]
          /\ clients' = (IF ok THEN clients \cup {c} ELSE clients)
    /\ UNCHANGED <<init_segment, init_done, push_pc, bc_used, bc_visited, bc_ws, dead, bc_whole,
                   n_chunks>>
    /\ BcastUnchanged

\* ws_handler: the browser's connection closes: finally, clients.discard.
browser_disconnects ==
    /\ \E c \in Conns :
          /\ browser_pc[c] = "in"
          /\ browser_pc' = [browser_pc EXCEPT ![c] = "gone"]
          /\ clients' = clients \ {c}
          /\ bc_whole' = bc_whole \ {c}
    /\ UNCHANGED <<init_segment, init_done, push_pc, bc_used, bc_visited, bc_ws, dead, n_chunks>>
    /\ BcastUnchanged

BcastNext ==
    \/ tcp_handler_starts
    \/ push_accumulates
    \/ push_broadcasts
    \/ push_eof
    \/ broadcast_send_returns
    \/ browser_connects
    \/ browser_init_sent
    \/ browser_disconnects

BcastInit == ServingInit /\ deployment = "input_server"
SpecBcast == BcastInit /\ [][BcastNext]_vars

\* ------------------------------------------------------------------ claims
PressEdge == Write(EV_KEY, BTN_TOUCH, 1)
ReleaseEdge == Write(EV_KEY, BTN_TOUCH, 0)
TouchKinds == {EVT_MOUSE_MOVE, EVT_MOUSE_DOWN, EVT_MOUSE_UP}

\* handle_event ran in the last operation (to its end, to a raising statement,
\* or to the point where shutdown cut it off).
EventOps == {"event_ok", "event_error", "shutdown_in_event"}

\* The slot the specification prescribes for a received arg3.
SpecSlot(arg3) == IF arg3 < 0 THEN 0 ELSE IF arg3 > 9 THEN 9 ELSE arg3

\* C1 (as claimed): an applied touch event emits the press-edge iff it takes
\* the number of active slots from 0 to 1, and the release-edge iff it takes
\* it from 1 to 0.
C1_EdgeIffCountTransition ==
    (op = "event_ok" /\ evt.evt_type \in TouchKinds) =>
        /\ (PressEdge \in Range(emitted)) <=>
              (Cardinality(prev_slots) = 0 /\ Cardinality(active_slots) = 1)
        /\ (ReleaseEdge \in Range(emitted)) <=>
              (Cardinality(prev_slots) = 1 /\ Cardinality(active_slots) = 0)

\* C2: in a hold of N distinct slots the device receives exactly one
\* press-edge, with the first DOWN, and exactly one release-edge, with the UP
\* that empties the slot set; no UP that leaves a slot active emits an edge.
C2_OneEdgePerHold ==
    /\ hold_n >= 1 => n_press = 1
    /\ hold_n = 0 => n_press = 0
    /\ (hold_phase = "up" /\ active_slots = {}) => n_release = 1
    /\ (hold_phase = "down" \/ active_slots # {}) => n_release = 0
    /\ (op = "event_ok" /\ evt.evt_type = EVT_MOUSE_DOWN) =>
          ((PressEdge \in Range(emitted)) <=> hold_n = 1)
    /\ (op = "event_ok" /\ evt.evt_type = EVT_MOUSE_UP) =>
          /\ (ReleaseEdge \in Range(emitted)) <=> (active_slots = {})
          /\ PressEdge \notin Range(emitted)

\* All ten slots were pressed and all ten lifted again.
C2_Witness ==
    /\ hold_n = MAX_TOUCH_SLOTS
    /\ hold_phase = "up"
    /\ active_slots = {}
    /\ n_press = 1
    /\ n_release = 1

\* C3 (as claimed): whatever an event wrote to the device ends with the
\* barrier, also when a write raised or shutdown cut the handler off.
C3_BarrierEndsEveryEvent ==
    (op \in EventOps /\ emitted # <<>>) => emitted[Len(emitted)] = Syn

\* C4 (as claimed): when the viewer's session ends, no slot stays active, and
\* if one was active the release-edge was written.
C4_DisconnectReleasesSlots ==
    (op = "disconnect") =>
        /\ active_slots = {}
        /\ prev_slots # {} => ReleaseEdge \in Range(emitted)

\* C5 (as claimed): when the process shuts down with the device handle closed,
\* no slot stays active, and if one was active the release sequence (release
\* edge, then barrier) was written before the close.
C5_ShutdownReleasesSlots ==
    (op = "shutdown" /\ ~dev_open) =>
        /\ active_slots = {}
        /\ prev_slots # {} =>
              /\ ReleaseEdge \in Range(emitted)
              /\ emitted[Len(emitted)] = Syn

\* C6 (as claimed): after every applied event the device's touch button is ON
\* iff at least one slot is active.
C6_ButtonFollowsSlots ==
    (op = "event_ok") => ((dev_btn_touch = 1) <=> (active_slots # {}))

\* C7: for a touch event the slot selected and mutated is max(0, min(9, arg3)):
\* every slot-select value written is that slot and lies in 0..9, every
\* tracking-id value written lies in -1..9, and only that slot changes state.
C7_SlotClamped ==
    (op \in EventOps /\ evt.evt_type \in TouchKinds) =>
        LET s == SpecSlot(evt.arg3) IN
        /\ \A i \in 1..Len(emitted) :
              /\ (emitted[i][1] = EV_ABS /\ emitted[i][2] = ABS_MT_SLOT) =>
                    (emitted[i][3] = s /\ emitted[i][3] \in 0..9)
              /\ (emitted[i][1] = EV_ABS /\ emitted[i][2] = ABS_MT_TRACKING_ID) =>
                    emitted[i][3] \in -1..9
        /\ (op = "event_ok") => emitted[1] = Write(EV_ABS, ABS_MT_SLOT, s)
        /\ (active_slots \ prev_slots) \cup (prev_slots \ active_slots) \subseteq {s}
        /\ (evt.evt_type = EVT_MOUSE_DOWN) => s \in active_slots
        /\ (evt.evt_type = EVT_MOUSE_UP) => s \notin active_slots
        /\ active_slots \subseteq 0..9

\* A DOWN whose arg3 is the largest 16-bit value was applied to slot 9.
C7_Witness ==
    /\ op = "event_ok"
    /\ evt.evt_type = EVT_MOUSE_DOWN
    /\ evt.arg3 = I16Max
    /\ prev_slots = {}
    /\ active_slots = {9}
    /\ emitted[1] = Write(EV_ABS, ABS_MT_SLOT, 9)
    /\ emitted[2] = Write(EV_ABS, ABS_MT_TRACKING_ID, 9)

\* C8 (as claimed): every position a MOVE or DOWN writes, on the multi-touch
\* axes and on the mirrored single-touch axes, lies inside the stream.
C8_PositionsInsideStream ==
    (op \in EventOps /\ evt.evt_type \in {EVT_MOUSE_MOVE, EVT_MOUSE_DOWN}) =>
        \A i \in 1..Len(emitted) :
            /\ (emitted[i][1] = EV_ABS /\ emitted[i][2] \in {ABS_X, ABS_MT_POSITION_X}) =>
                  emitted[i][3] \in 0..(STREAM_WIDTH - 1)
            /\ (emitted[i][1] = EV_ABS /\ emitted[i][2] \in {ABS_Y, ABS_MT_POSITION_Y}) =>
                  emitted[i][3] \in 0..(STREAM_HEIGHT - 1)

\* The run DOWN(x=100, y=200, slot 0), UP(slot 0) from the all-inactive state.
IsTap ==
    /\ Len(trace) = 2
    /\ trace[1] = [evt_type |-> EVT_MOUSE_DOWN, arg1 |-> 100, arg2 |-> 200, arg3 |-> 0, arg4 |-> 0]
    /\ trace[2].evt_type = EVT_MOUSE_UP
    /\ trace[2].arg3 = 0

\* C9 (as claimed): the tap writes slot 0, tracking id 0, MT position
\* (100,200), mirrored X and Y, press-edge, barrier; slot 0, tracking id -1,
\* release-edge, barrier.
C9_TapStreamAsClaimed ==
    IsTap =>
        dev_log = << Write(EV_ABS, ABS_MT_SLOT, 0),
                     Write(EV_ABS, ABS_MT_TRACKING_ID, 0),
                     Write(EV_ABS, ABS_MT_POSITION_X, 100),
                     Write(EV_ABS, ABS_MT_POSITION_Y, 200),
                     Write(EV_ABS, ABS_X, 100),
                     Write(EV_ABS, ABS_Y, 200),
                     Write(EV_KEY, BTN_TOUCH, 1),
                     Syn,
                     Write(EV_ABS, ABS_MT_SLOT, 0),
                     Write(EV_ABS, ABS_MT_TRACKING_ID, -1),
                     Write(EV_KEY, BTN_TOUCH, 0),
                     Syn >>

\* C9 (amended): the tap writes slot 0, tracking id 0, MT position (100,200),
\* press-edge, then mirrored X and Y, barrier; slot 0, tracking id -1,
\* release-edge, barrier.
C9_TapStream ==
    IsTap =>
        dev_log = << Write(EV_ABS, ABS_MT_SLOT, 0),
                     Write(EV_ABS, ABS_MT_TRACKING_ID, 0),
                     Write(EV_ABS, ABS_MT_POSITION_X, 100),
                     Write(EV_ABS, ABS_MT_POSITION_Y, 200),
                     Write(EV_KEY, BTN_TOUCH, 1),
                     Write(EV_ABS, ABS_X, 100),
                     Write(EV_ABS, ABS_Y, 200),
                     Syn,
                     Write(EV_ABS, ABS_MT_SLOT, 0),
                     Write(EV_ABS, ABS_MT_TRACKING_ID, -1),
                     Write(EV_KEY, BTN_TOUCH, 0),
                     Syn >>

\* The tap was applied and left no slot active.
C9_Witness ==
    /\ IsTap
    /\ active_slots = {}
    /\ Len(dev_log) = 12

\* C10: every DOWN marks the clamped slot active, and what it writes comes in
\* this order: slot-select, tracking id (= the slot), MT position X, MT
\* position Y, then only press-edge and single-touch mirror, then the barrier;
\* the barrier is never followed by another write, and a DOWN that
\* handle_event carries through writes all of it, barrier included.
C10_DownSequence ==
    (op \in EventOps /\ evt.evt_type = EVT_MOUSE_DOWN) =>
        LET s == SpecSlot(evt.arg3)
            n == Len(emitted)
        IN  /\ s \in active_slots
            /\ n >= 1 => emitted[1] = Write(EV_ABS, ABS_MT_SLOT, s)
            /\ n >= 2 => emitted[2] = Write(EV_ABS, ABS_MT_TRACKING_ID, s)
            /\ n >= 3 => emitted[3] = Write(EV_ABS, ABS_MT_POSITION_X, evt.arg1)
            /\ n >= 4 => emitted[4] = Write(EV_ABS, ABS_MT_POSITION_Y, evt.arg2)
            /\ \A i \in 5..n :
                  \/ emitted[i] = PressEdge
                  \/ emitted[i] = Write(EV_ABS, ABS_X, evt.arg1)
                  \/ emitted[i] = Write(EV_ABS, ABS_Y, evt.arg2)
                  \/ (emitted[i] = Syn /\ i = n)
            /\ \A i \in 1..(n - 1) : emitted[i] # Syn
            /\ (op = "event_ok") => (n >= 5 /\ emitted[n] = Syn)

\* A DOWN on the primary slot with no slot active before: press-edge and
\* mirror are written between the position and the barrier.
C10_Witness ==
    /\ op = "event_ok"
    /\ evt.evt_type = EVT_MOUSE_DOWN
    /\ prev_slots = {}
    /\ active_slots = {0}
    /\ PressEdge \in Range(emitted)
    /\ Len(emitted) = 8

\* C11 (as claimed): every UP marks the clamped slot inactive and leaves the
\* other slots alone, and writes slot-select, tracking id -1, the release-edge
\* iff the active count dropped from 1 to 0, and the barrier; nothing else,
\* so no position.
C11_UpSequence ==
    (op = "event_ok" /\ evt.evt_type = EVT_MOUSE_UP) =>
        LET s == SpecSlot(evt.arg3) IN
        /\ active_slots = prev_slots \ {s}
        /\ emitted =
              <<Write(EV_ABS, ABS_MT_SLOT, s), Write(EV_ABS, ABS_MT_TRACKING_ID, -1)>>
              \o (IF Cardinality(prev_slots) = 1 /\ Cardinality(active_slots) = 0
                  THEN <<ReleaseEdge>> ELSE <<>>)
              \o <<Syn>>

\* The last event of the recorded run.
LastEvent == trace[Len(trace)]

\* C12: a DOWN on a slot that is already active does not stack: the slot set
\* (so the active count) is unchanged, the slot's tracking id and position are
\* written again with the new values, and one UP on that slot right after two
\* DOWNs on it leaves it inactive.
C12_NoStacking ==
    /\ (Len(trace) >= 1 /\ LastEvent.evt_type = EVT_MOUSE_DOWN
            /\ SpecSlot(LastEvent.arg3) \in prev_slots) =>
          LET s == SpecSlot(LastEvent.arg3) IN
          /\ active_slots = prev_slots
          /\ Cardinality(active_slots) = Cardinality(prev_slots)
          /\ emitted[1] = Write(EV_ABS, ABS_MT_SLOT, s)
          /\ emitted[2] = Write(EV_ABS, ABS_MT_TRACKING_ID, s)
          /\ emitted[3] = Write(EV_ABS, ABS_MT_POSITION_X, LastEvent.arg1)
          /\ emitted[4] = Write(EV_ABS, ABS_MT_POSITION_Y, LastEvent.arg2)
    /\ (Len(trace) >= 3 /\ LastEvent.evt_type = EVT_MOUSE_UP
            /\ trace[Len(trace) - 1].evt_type = EVT_MOUSE_DOWN
            /\ trace[Len(trace) - 2].evt_type = EVT_MOUSE_DOWN
            /\ trace[Len(trace) - 1].arg3 = LastEvent.arg3
            /\ trace[Len(trace) - 2].arg3 = LastEvent.arg3) =>
          /\ SpecSlot(LastEvent.arg3) \notin active_slots
          /\ SpecSlot(LastEvent.arg3) \in prev_slots
          /\ Cardinality(active_slots) = Cardinality(prev_slots) - 1

\* DOWN(100,200) and DOWN(640,360) on slot 0, then one UP on slot 0.
C12_Witness ==
    /\ Len(trace) = 3
    /\ trace[1] = [evt_type |-> EVT_MOUSE_DOWN, arg1 |-> 100, arg2 |-> 200, arg3 |-> 0, arg4 |-> 0]
    /\ trace[2] = [evt_type |-> EVT_MOUSE_DOWN, arg1 |-> 640, arg2 |-> 360, arg3 |-> 0, arg4 |-> 0]
    /\ trace[3].evt_type = EVT_MOUSE_UP
    /\ trace[3].arg3 = 0
    /\ active_slots = {}

\* C13: with a working device, a MOVE or UP whose slot is not active is
\* applied and handle_event returns normally: the MOVE writes the position on
\* the selected slot, the UP writes tracking id -1, each ends with the
\* barrier, and the slot set is what it was.
C13_InactiveSlotAccepted ==
    (op \in EventOps /\ evt.evt_type \in {EVT_MOUSE_MOVE, EVT_MOUSE_UP}
        /\ SpecSlot(evt.arg3) \notin prev_slots) =>
        /\ op = "event_ok"
        /\ active_slots = prev_slots
        /\ emitted[1] = Write(EV_ABS, ABS_MT_SLOT, SpecSlot(evt.arg3))
        /\ emitted[Len(emitted)] = Syn
        /\ (evt.evt_type = EVT_MOUSE_MOVE) =>
              /\ emitted[2] = Write(EV_ABS, ABS_MT_POSITION_X, evt.arg1)
              /\ emitted[3] = Write(EV_ABS, ABS_MT_POSITION_Y, evt.arg2)
        /\ (evt.evt_type = EVT_MOUSE_UP) =>
              emitted[2] = Write(EV_ABS, ABS_MT_TRACKING_ID, -1)

\* An UP on slot 1, never pressed, while slot 0 is held.
C13_Witness ==
    /\ op = "event_ok"
    /\ evt.evt_type = EVT_MOUSE_UP
    /\ evt.arg3 = 1
    /\ prev_slots = {0}
    /\ active_slots = {0}
    /\ emitted = <<Write(EV_ABS, ABS_MT_SLOT, 1), Write(EV_ABS, ABS_MT_TRACKING_ID, -1), Syn>>

\* Sequence a is an initial part of sequence b.
IsPrefix(a, b) == Len(a) <= Len(b) /\ a = SubSeq(b, 1, Len(a))

\* What the specification lets a MOVE write: slot-select, multi-touch
\* position, the single-touch mirror on the primary slot, the barrier.
MoveSequence(e) ==
    LET s == SpecSlot(e.arg3) IN
    <<Write(EV_ABS, ABS_MT_SLOT, s),
      Write(EV_ABS, ABS_MT_POSITION_X, e.arg1),
      Write(EV_ABS, ABS_MT_POSITION_Y, e.arg2)>>
    \o (IF s = 0 THEN <<Write(EV_ABS, ABS_X, e.arg1), Write(EV_ABS, ABS_Y, e.arg2)>> ELSE <<>>)
    \o <<Syn>>

\* C14: a MOVE leaves the slot set and the touch button as they were and
\* writes no tracking id and no key event; what it writes is slot-select,
\* multi-touch position, the mirror when the slot is the primary one, and the
\* barrier, all of it when handle_event returns and an initial part of it
\* when a write raised or shutdown cut it off.
C14_MoveFrame ==
    (op \in EventOps /\ evt.evt_type = EVT_MOUSE_MOVE) =>
        /\ active_slots = prev_slots
        /\ \A i \in 1..Len(emitted) :
              /\ ~(emitted[i][1] = EV_ABS /\ emitted[i][2] = ABS_MT_TRACKING_ID)
              /\ emitted[i][1] # EV_KEY
        /\ IsPrefix(emitted, MoveSequence(evt))
        /\ (op = "event_ok") => emitted = MoveSequence(evt)

\* A MOVE on the primary slot while slots 0 and 1 are held.
C14_Witness ==
    /\ op = "event_ok"
    /\ evt.evt_type = EVT_MOUSE_MOVE
    /\ evt.arg3 = 0
    /\ prev_slots = {0, 1}
    /\ active_slots = {0, 1}
    /\ dev_btn_touch = 1
    /\ Len(emitted) = 6

\* The device stream of the recorded run before its last event was applied.
LogBeforeLast == SubSeq(dev_log, 1, Len(dev_log) - Len(emitted))

\* C15: a MOVE applied a second time right after itself changes nothing: the
\* device (every slot's position and tracking id, the selected slot, the
\* single-touch axes, the touch button) and the slot set are what they were
\* after the first application.
C15_MoveIdempotent ==
    (Len(trace) >= 2 /\ LastEvent.evt_type = EVT_MOUSE_MOVE
        /\ trace[Len(trace) - 1] = LastEvent) =>
        /\ DeviceAfter(DeviceInit, dev_log) = DeviceAfter(DeviceInit, LogBeforeLast)
        /\ active_slots = prev_slots
        /\ dev_btn_touch = DeviceAfter(DeviceInit, LogBeforeLast).btn_touch

\* Slot 1 pressed at (100,200), then the same MOVE to (640,360) on slot 1 twice.
C15_Witness ==
    /\ Len(trace) = 3
    /\ trace[1] = [evt_type |-> EVT_MOUSE_DOWN, arg1 |-> 100, arg2 |-> 200, arg3 |-> 1, arg4 |-> 0]
    /\ trace[2] = [evt_type |-> EVT_MOUSE_MOVE, arg1 |-> 640, arg2 |-> 360, arg3 |-> 1, arg4 |-> 0]
    /\ trace[3] = trace[2]
    /\ DeviceAfter(DeviceInit, dev_log).mt_x[1] = 640
    /\ DeviceAfter(DeviceInit, dev_log).mt_y[1] = 360
    /\ active_slots = {1}

\* Some write of the last operation went to a single-touch axis.
WroteSingleTouch ==
    \E i \in 1..Len(emitted) :
        emitted[i][1] = EV_ABS /\ emitted[i][2] \in {ABS_X, ABS_Y}

\* C16: a MOVE or DOWN writes the single-touch axes iff its clamped slot is
\* the primary slot 0, and then writes ABS_X = x and ABS_Y = y; an event on
\* slots 1..9 writes neither axis, nor does any UP, also when the handler is
\* cut short.
C16_MirrorIffPrimary ==
    (op \in EventOps /\ evt.evt_type \in TouchKinds) =>
        /\ (evt.evt_type = EVT_MOUSE_UP) => ~WroteSingleTouch
        /\ (SpecSlot(evt.arg3) # 0) => ~WroteSingleTouch
        /\ (op = "event_ok" /\ evt.evt_type \in {EVT_MOUSE_MOVE, EVT_MOUSE_DOWN}) =>
              /\ WroteSingleTouch <=> (SpecSlot(evt.arg3) = 0)
              /\ (SpecSlot(evt.arg3) = 0) =>
                    /\ Write(EV_ABS, ABS_X, evt.arg1) \in Range(emitted)
                    /\ Write(EV_ABS, ABS_Y, evt.arg2) \in Range(emitted)
                    /\ \A i \in 1..Len(emitted) :
                          /\ (emitted[i][1] = EV_ABS /\ emitted[i][2] = ABS_X) =>
                                emitted[i][3] = evt.arg1
                          /\ (emitted[i][1] = EV_ABS /\ emitted[i][2] = ABS_Y) =>
                                emitted[i][3] = evt.arg2

\* A DOWN whose arg3 = -1 is clamped to the primary slot and mirrored while
\* slot 1 is held.
C16_Witness ==
    /\ op = "event_ok"
    /\ evt.evt_type = EVT_MOUSE_DOWN
    /\ evt.arg3 = -1
    /\ prev_slots = {1}
    /\ active_slots = {0, 1}
    /\ Write(EV_ABS, ABS_X, evt.arg1) \in Range(emitted)
    /\ Write(EV_ABS, ABS_Y, evt.arg2) \in Range(emitted)

KeyKinds == {EVT_KEY_DOWN, EVT_KEY_UP}

\* What the specification lets a key event write: one key edge for the code
\* received (ON for KEY_DOWN, OFF for KEY_UP) and one barrier.
KeySequence(e) ==
    <<Write(EV_KEY, e.arg1, IF e.evt_type = EVT_KEY_DOWN THEN 1 ELSE 0), Syn>>

\* C17: a KEY_DOWN / KEY_UP leaves the slot set as it was and, when
\* handle_event returns, has written exactly one key edge for its code and
\* then one barrier, whatever arg3 is; when a write raised or shutdown cut it
\* off it has written an initial part of that.
C17_KeyFrame ==
    (op \in EventOps /\ evt.evt_type \in KeyKinds) =>
        /\ active_slots = prev_slots
        /\ IsPrefix(emitted, KeySequence(evt))
        /\ (op = "event_ok") => emitted = KeySequence(evt)

\* KEY_DOWN of KEY_A with the largest arg3 while slot 0 is held.
C17_Witness ==
    /\ op = "event_ok"
    /\ evt.evt_type = EVT_KEY_DOWN
    /\ evt.arg1 = KEY_A
    /\ evt.arg3 = I16Max
    /\ prev_slots = {0}
    /\ active_slots = {0}
    /\ emitted = <<Write(EV_KEY, KEY_A, 1), Syn>>

\* C18 (as claimed): a key event whose code is zero or not one of
\* KEYBOARD_KEYS writes nothing to the device, neither key edge nor barrier.
C18_UnknownKeyDropped ==
    (op = "event_ok" /\ evt.evt_type \in KeyKinds
        /\ (evt.arg1 = 0 \/ evt.arg1 \notin KEYBOARD_KEYS)) =>
        emitted = <<>>

KnownKinds == {EVT_MOUSE_MOVE, EVT_MOUSE_DOWN, EVT_MOUSE_UP, EVT_KEY_DOWN, EVT_KEY_UP}

\* C19: a step that hands handle_event an event of a kind other than the five
\* known ones ends with handle_event returning normally, nothing written to
\* the device, and the slot set, the touch button and the device handle as
\* they were, whatever the other fields are.
C19_UnknownKindDropped ==
    [][ (op' \in EventOps /\ evt'.evt_type \notin KnownKinds) =>
            /\ op' = "event_ok"
            /\ emitted' = <<>>
            /\ active_slots' = active_slots
            /\ dev_btn_touch' = dev_btn_touch
            /\ dev_open' = dev_open
            /\ proc' = proc ]_vars

\* An event of kind 255 carrying the BTN_TOUCH code and an out-of-range slot,
\* received while slot 0 is held.
C19_Witness ==
    /\ op = "event_ok"
    /\ evt.evt_type = 255
    /\ evt.arg1 = BTN_TOUCH
    /\ evt.arg3 = I16Max
    /\ prev_slots = {0}
    /\ active_slots = {0}
    /\ dev_btn_touch = 1
    /\ emitted = <<>>

\* C20: a write that raises while one record is applied ends neither the
\* process nor the walk over the buffer: the failing record's remaining writes
\* are not made, every record received is either handled or still waiting in
\* arrival order with none skipped, the record handled is always the next one
\* by arrival, and the loop can take its next step (the next record, or the
\* next buffer when none is left and more are to come).
C20_ReceiveSurvivesWriteError ==
    /\ proc = "running"
    /\ dev_open
    /\ n_records = last_seq + Len(datagram)
    /\ \A i \in 1..Len(datagram) : datagram[i].seq = last_seq + i
    /\ (op = "event_error") =>
          /\ IsPrefix(emitted, Writes(evt, prev_slots))
          /\ Len(emitted) < Len(Writes(evt, prev_slots))
    /\ (datagram # <<>>) => ENABLED buffer_record
    /\ (datagram = <<>> /\ n_recv < MaxBuffers) => ENABLED recv_buffer

\* The first record of a two-record buffer raised, the second was applied,
\* and the only record of the next buffer has now been applied as well.
C20_Witness ==
    /\ err_seq = 1
    /\ n_recv = 2
    /\ dg_first = 3
    /\ last_seq = 3
    /\ n_records = 3
    /\ datagram = <<>>
    /\ op = "event_ok"

\* C21 (as claimed): when the virtual input device could not be created, the
\* process never serves: no viewer session is accepted and no pipeline is
\* started, startup having ended in the fatal state.
C21_NoServiceWithoutDevice ==
    (input_injector = "None") =>
        /\ op # "accept"
        /\ viewer_ws = "None"
        /\ stream = "None"

\* C22 (as claimed): the end of a viewer session (socket closed, connection
\* error, pipeline start failure) and a receive error on the datagram socket
\* leave the process running with no viewer recorded, ready for the next one.
C22_ServerRearms ==
    (op \in {"disconnect", "start_failed", "recv_error"}) =>
        /\ proc = "running"
        /\ viewer_ws = "None"
        /\ stream = "None"

\* The signed 16-bit value of two bytes, least significant first.
LittleEndianI16(b0, b1) ==
    LET u == b0 + 256 * b1
    IN  IF u >= 32768 THEN u - 65536 ELSE u

\* C23: decoding an encoded event gives the event back, field by field, for
\* kinds 0..255, timestamps 0..2^32-1 and arguments -32768..32767, with
\* struct.pack and with either page's mkEvt as the encoder: every record
\* unpacked from a buffer equals the record the sender encoded at that place,
\* and once the loop is over all of them have been unpacked.
C23_RoundTrip ==
    /\ Len(decoded) <= Len(sent)
    /\ \A i \in 1..Len(decoded) : decoded[i] = sent[i]
    /\ (wire_phase = "done") => (decoded = sent)

C23_Witness ==
    /\ wire_phase = "done"
    /\ Len(decoded) = 1
    /\ decoded[1].evt_type = 255
    /\ decoded[1].ts = [lo |-> 65535, hi |-> 65535]
    /\ decoded[1].arg1 = I16Min
    /\ decoded[1].arg3 = -1
    /\ decoded[1].arg4 = I16Max

\* C24: an encoded record is 13 bytes, little-endian, unpadded: kind at byte
\* 0, timestamp at 1..4, arg1 at 5..6, arg2 at 7..8, arg3 at 9..10, arg4 at
\* 11..12, whichever encoder produced it; the decoders step by 13 bytes.
C24_Layout ==
    (wire_phase # "idle") =>
        /\ EVENT_SIZE = 13
        /\ (Len(wire) - 13 * Len(sent)) \in 0..12
        /\ \A i \in 1..Len(sent) :
              LET o == 13 * (i - 1)
                  r == sent[i]
              IN  /\ wire[o + 1] = r.evt_type
                  /\ wire[o + 2] + 256 * wire[o + 3] = r.ts.lo
                  /\ wire[o + 4] + 256 * wire[o + 5] = r.ts.hi
                  /\ LittleEndianI16(wire[o + 6], wire[o + 7]) = r.arg1
                  /\ LittleEndianI16(wire[o + 8], wire[o + 9]) = r.arg2
                  /\ LittleEndianI16(wire[o + 10], wire[o + 11]) = r.arg3
                  /\ LittleEndianI16(wire[o + 12], wire[o + 13]) = r.arg4

C24_Witness ==
    /\ wire_phase = "decoding"
    /\ Len(wire) = 13
    /\ sent[1].evt_type = EVT_KEY_DOWN
    /\ sent[1].ts = [lo |-> 256, hi |-> 32768]
    /\ sent[1].arg2 = I16Min
    /\ sent[1].arg4 = I16Min

\* C25: a buffer of L bytes is decoded into floor(L/13) events, the
\* consecutive 13-byte records in buffer order; the L mod 13 trailing bytes
\* are dropped and nothing raises; a buffer under 13 bytes gives no event.
C25_GreedyDecode ==
    /\ offset = 13 * Len(decoded)
    /\ \A i \in 1..Len(decoded) :
          /\ decoded[i] # StructError
          /\ decoded[i] = struct_unpack_from(wire, 13 * (i - 1))
    /\ (wire_phase = "decoding") => (Len(decoded) < Len(wire) \div 13)
    /\ (wire_phase = "done") => (Len(decoded) = Len(wire) \div 13)
    /\ op # "struct_error"
    /\ proc = "running"

C25_Witness ==
    /\ wire_phase = "done"
    /\ Len(wire) = 3 * 13 + 5
    /\ Len(decoded) = 3
    /\ op = "event_ok"

\* C26: the relay hands a frame to sendto exactly when the frame is binary,
\* holds at least one whole 13-byte record and a sender address is
\* configured; a text frame or a binary frame under 13 bytes is skipped, no
\* datagram is sent for it and the session stays in its receive loop.
C26_RelayFilter ==
    (frame # NoFrame) =>
        /\ sendto_called <=>
              (frame.binary /\ Len(frame.bytes) >= 13 /\ sender_addr = "addr")
        /\ (~frame.binary \/ Len(frame.bytes) < 13) =>
              /\ ~sendto_called
              /\ udp = <<>>
              /\ relay_phase = "open"

C26_Witness ==
    /\ frame.binary
    /\ Len(frame.bytes) = 12
    /\ sender_addr = "addr"
    /\ ~sendto_called
    /\ relay_phase = "open"
    /\ n_frames = 2

\* C27: every whole 13-byte record of a frame the relay accepted is applied
\* to the injector, in frame order, whatever the frame's length: when the
\* receive loop is done with the relayed datagram it has unpacked and applied
\* floor(L/13) records, the records the frame was sent with.
C27_RelayAppliesEveryRecord ==
    (relay_phase # "off" /\ wire_phase = "done") =>
        /\ Len(decoded) = Len(sent)
        /\ decoded = sent

\* C28: the device output and the injector's slot and button state do not
\* depend on timestamps or on arg4: two streams equal in every other field
\* give the same writes in the same order, the same active-slot set and the
\* same touch-button state.
C28_TimestampIndependent ==
    /\ twin_log = dev_log
    /\ twin_slots = active_slots
    /\ twin_btn = dev_btn_touch

C28_Witness ==
    /\ twin_diff
    /\ Len(trace) = MaxTwin
    /\ active_slots = {0, 1}
    /\ twin_slots = {0, 1}
    /\ Len(twin_log) > 0

C30_ArrivalOrder ==
    [][/\ (last_seq' # last_seq) =>
              /\ datagram # <<>>
              /\ Head(datagram).seq = last_seq + 1
              /\ last_seq' = last_seq + 1
              /\ evt' = Head(datagram).e
              /\ datagram' = Tail(datagram)
       /\ (n_recv' # n_recv) =>
              /\ last_seq = n_records
              /\ dg_first' = n_records + 1]_vars

\* Two buffers of two records each, all four applied.
C30_Witness ==
    /\ n_recv = 2
    /\ dg_first = 3
    /\ n_records = 4
    /\ last_seq = 4
    /\ err_seq = 0
    /\ op = "event_ok"

\* C31: the two injector implementations are equivalent: run side by side
\* on the same events from the all-inactive state, they have emitted the same
\* primitives in the same order and hold the same active-slot set after
\* every event.
C31_InjectorsEquivalent ==
    (deployment = "input_server") =>
        /\ twin_log = dev_log
        /\ twin_slots = active_slots
        /\ twin_btn = dev_btn_touch

\* DOWN beyond the last slot, DOWN below the first, then UP on the last slot.
C31_Witness ==
    /\ Len(trace) = 3
    /\ trace[1].evt_type = EVT_MOUSE_DOWN /\ trace[1].arg3 = 10
    /\ trace[2].evt_type = EVT_MOUSE_DOWN /\ trace[2].arg3 = -1
    /\ trace[3].evt_type = EVT_MOUSE_UP /\ trace[3].arg3 = 9
    /\ twin_slots = {0}
    /\ Len(twin_log) > 0

\* C32: every MOVE, DOWN and UP record the host unpacks from a packet of
\* receive_and_decode, of input_sender_loop or of the web_receiver page
\* carries arg3 = 0, so that the host applies it to slot 0.
C32_LegacySendersUseSlotZero ==
    \A i \in 1..Len(sender_sent) :
        sender_sent[i].evt_type \in TouchKinds =>
            /\ sender_sent[i].arg3 = 0
            /\ clamp_slot(sender_sent[i].arg3) = 0

\* A touch stream is well bracketed from a contact state: DOWN only while up,
\* UP and MOVE only while down.
RECURSIVE WellBracketed(_, _)
WellBracketed(recs, down) ==
    IF recs = <<>> THEN TRUE
    ELSE LET k == Head(recs).evt_type
         IN  /\ (k = EVT_MOUSE_DOWN) => ~down
             /\ (k \in {EVT_MOUSE_UP, EVT_MOUSE_MOVE}) => down
             /\ WellBracketed(Tail(recs), k # EVT_MOUSE_UP)

IsTouchRecord(r) == r.evt_type \in TouchKinds

\* C39: the touch records receive_and_decode sends form a well-bracketed
\* single-touch stream: DOWN and UP alternate starting with DOWN, MOVE is sent
\* only between a sent DOWN and the next UP, and no touch record comes from an
\* event of a button other than the left one.
C39_WellBracketedStream ==
    (sender = "receive_and_decode") =>
        /\ WellBracketed(SelectSeq(sender_sent, IsTouchRecord), FALSE)
        /\ \A i \in 1..Len(sender_sent) :
              IsTouchRecord(sender_sent[i]) =>
                  \/ sender_cause[i].type = "MOUSEMOTION"
                  \/ sender_cause[i].button = 1

\* C33: the active-slot set is empty initially and always a subset of 0..9
\* (so between 0 and 10 slots are active), and a step changes it only by a
\* DOWN adding its slot or an UP removing its slot.
C33_SlotSetDiscipline ==
    /\ active_slots = {}
    /\ [](/\ active_slots \subseteq 0..(MAX_TOUCH_SLOTS - 1)
          /\ Cardinality(active_slots) \in 0..MAX_TOUCH_SLOTS)
    /\ [][(active_slots' # active_slots) =>
             \/ /\ evt'.evt_type = EVT_MOUSE_DOWN
                /\ active_slots' = active_slots \cup {SpecSlot(evt'.arg3)}
             \/ /\ evt'.evt_type = EVT_MOUSE_UP
                /\ active_slots' = active_slots \ {SpecSlot(evt'.arg3)}]_vars

\* An UP beyond the slot range removed slot 9 from a set two DOWNs had built.
C33_Witness ==
    /\ op = "event_ok"
    /\ evt.evt_type = EVT_MOUSE_UP
    /\ evt.arg3 = I16Max
    /\ prev_slots = {0, 9}
    /\ active_slots = {0}

\* C34: an event whose application fails with a device-write error leaves the
\* active-slot set as it was: a DOWN that failed has not marked its slot
\* active.
C34_FailedEventLeavesSlots ==
    (op = "event_error") => active_slots = prev_slots

\* C35: in the WebRTC server a viewer session that has just been accepted
\* finds every injector slot inactive and the touch button released.
C35_SessionStartsInactive ==
    (deployment = "webrtc_stream" /\ op = "accept") =>
        /\ active_slots = {}
        /\ dev_btn_touch = 0

\* C36: under every interleaving of connection handlers at most one viewer
\* session is active; viewer_ws and stream are None exactly when none is, and
\* otherwise both belong to the one handler in its message loop; a connection
\* closed with 1013 started no pipeline, and the step that rejects it, like
\* the return of any closed handler, leaves viewer_ws and stream as they were.
C36_SingleViewer ==
    /\ [](/\ Cardinality(InLoop) <= 1
          /\ (viewer_ws = "None") <=> (InLoop = {})
          /\ (stream = "None") <=> (viewer_ws = "None")
          /\ (viewer_ws # "None") => (InLoop = {viewer_ws} /\ stream = viewer_ws)
          /\ \A c \in Conns :
                (ws_pc[c] = "close_1013" \/ close_code[c] = 1013) =>
                    pipeline_starts[c] = 0)
    /\ [][\A c \in Conns :
             (ws_pc'[c] # ws_pc[c] /\ ws_pc[c] # "loop" /\ ws_pc'[c] # "loop") =>
                 /\ (ws_pc'[c] = "close_1013") <=> (ws_pc[c] = "pending" /\ viewer_ws # "None")
                 /\ viewer_ws' = viewer_ws
                 /\ stream' = stream
                 /\ remote_description' = remote_description \/ ws_pc'[c] = "close_1011"]_vars

\* One connection is the viewer with an answer set, after one was turned away
\* with 1013 and one failed to start with 1011.
C36_Witness ==
    /\ Cardinality(InLoop) = 1
    /\ remote_description
    /\ \E c \in Conns : close_code[c] = 1013 /\ pipeline_starts[c] = 0
    /\ \E c \in Conns : close_code[c] = 1011

Mapped == DOMAIN idToSlot
FreeSlots == {i \in 0..(MAX_SLOTS - 1) : ~slotUsed[i]}

\* C37: after any sequence of touch handlers no two live identifiers share a
\* slot, every assigned slot is in 0..9, slotUsed[i] holds exactly when some
\* identifier maps to i, and a touchstart gets the existing slot of a mapped
\* identifier, else the lowest free slot, else (all ten taken) no slot and
\* hands no event to sendEvt.
C37_SlotAllocator ==
    /\ [](/\ \A a \in Mapped : \A b \in Mapped : (a # b) => idToSlot[a] # idToSlot[b]
          /\ \A a \in Mapped : idToSlot[a] \in 0..9
          /\ \A i \in 0..9 : slotUsed[i] <=> (\E a \in Mapped : idToSlot[a] = i))
    /\ [][(last_handler' = "touchstart") =>
             LET id == last_id' IN
             IF id \in Mapped
             THEN /\ made' = <<MadeEvent(EVT_MOUSE_DOWN, idToSlot[id])>>
                  /\ idToSlot' = idToSlot
             ELSE IF FreeSlots = {}
             THEN /\ made' = <<>>
                  /\ idToSlot' = idToSlot
                  /\ slotUsed' = slotUsed
             ELSE /\ Len(made') = 1
                  /\ made'[1].arg3 \in FreeSlots
                  /\ \A j \in FreeSlots : made'[1].arg3 <= j
                  /\ DOMAIN idToSlot' = Mapped \cup {id}
                  /\ idToSlot'[id] = made'[1].arg3
                  /\ \A a \in Mapped : idToSlot'[a] = idToSlot[a]]_vars

\* An eleventh finger came down with all ten slots taken and got none.
C37_Witness ==
    /\ last_handler = "touchstart"
    /\ made = <<>>
    /\ Cardinality(live) = MAX_SLOTS + 1
    /\ Cardinality(Mapped) = MAX_SLOTS
    /\ last_id \notin Mapped

\* C38: whenever the page has no touch and no mouse contact, every slot is
\* free and every message sent has been delivered, the host injector has no
\* active slot.
C38_ClientHostConsistent ==
    (live = {} /\ Mapped = {} /\ ~mouseDown /\ dc_queue = <<>>) => active_slots = {}

\* C40: browsers connecting and disconnecting while broadcast awaits a send
\* never end the push loop, and a broadcast that is over has offered the
\* chunk to every client that was connected throughout it.
C40_PushSurvivesClientChanges ==
    /\ push_pc # "error"
    /\ (push_pc \in {"read", "eof"}) => bc_whole \subseteq bc_visited

====
